---- MODULE Spec2Model ----
(***************************************************************************)
(* Naming-and-placement decision engine of the audio/directory organizer:  *)
(* main() of main_orchastrator.py with the helpers it calls, the naming    *)
(* agent's generation/validation/routing and the analyzer's payload mode.  *)
(* Strings are TLA+ strings; characters are strings of length 1.           *)
(***************************************************************************)
EXTENDS Integers, Sequences, FiniteSets, TLC

\* ------------------------------------------------------------------------
\* Bounds of the model
\* ------------------------------------------------------------------------

\* Longest chain base, base1, base2, ... of siblings that exist beforehand.
MaxChain == 1

\* Largest suffix n of a sibling base<n> that may exist when the conflict
\* probe is applied on its own.
MaxSuffix == 3

\* Longest of the short strings validate_directory_name is applied to.
MaxShortLen == 2

\* Seconds the clock advances, and runs that start, while session ids are
\* handed out.
MaxClock == 5
MaxRuns == 3

\* Most entries of a directory whose snippets are extracted, and the number
\* of ways its kinds of entries are rotated.
MaxFiles == 45
MaxShift == 3

\* Deepest directory, in levels below the analyzed one, of the directories
\* whose file tree is built.
MaxTreeDepth == 5

\* ------------------------------------------------------------------------
\* String helpers (Python str operations used by the code)
\* ------------------------------------------------------------------------

LowerLetters == "abcdefghijklmnopqrstuvwxyz"
UpperLetters == "ABCDEFGHIJKLMNOPQRSTUVWXYZ"
Digits == "0123456789"

CharAt(s, i) == SubSeq(s, i, i)

CharIn(c, alphabet) == \E i \in 1..Len(alphabet) : CharAt(alphabet, i) = c

\* `sub in s`
Contains(s, sub) ==
    \E i \in 1..(Len(s) - Len(sub) + 1) : SubSeq(s, i, i + Len(sub) - 1) = sub

IsSpace(c) == c \in {" ", "\t", "\n", "\r"}

RECURSIVE LStrip(_)
LStrip(s) ==
    IF Len(s) > 0 /\ IsSpace(CharAt(s, 1)) THEN LStrip(SubSeq(s, 2, Len(s))) ELSE s

RECURSIVE RStrip(_)
RStrip(s) ==
    IF Len(s) > 0 /\ IsSpace(CharAt(s, Len(s)))
    THEN RStrip(SubSeq(s, 1, Len(s) - 1))
    ELSE s

\* str.strip()
Strip(s) == RStrip(LStrip(s))

LowerChar(c) ==
    IF CharIn(c, UpperLetters)
    THEN CharAt(LowerLetters, CHOOSE i \in 1..26 : CharAt(UpperLetters, i) = c)
    ELSE c

RECURSIVE Lower(_)
\* str.lower()
Lower(s) ==
    IF Len(s) = 0 THEN "" ELSE LowerChar(CharAt(s, 1)) \o Lower(SubSeq(s, 2, Len(s)))

RECURSIVE JoinWith(_, _)
\* sep.join(list)
JoinWith(sep, list) ==
    IF Len(list) = 0 THEN ""
    ELSE IF Len(list) = 1 THEN list[1]
    ELSE list[1] \o sep \o JoinWith(sep, Tail(list))

RECURSIVE IntToStr(_)
\* str(n) for n >= 0
IntToStr(n) ==
    IF n < 10 THEN CharAt(Digits, n + 1)
    ELSE IntToStr(n \div 10) \o CharAt(Digits, (n % 10) + 1)

\* os.path.join(a, b) and Path(a) / b for a relative b
PathJoin(a, b) == a \o "/" \o b

\* ------------------------------------------------------------------------
\* DirectoryNamingAgent (ai_naming_agent.py)
\* ------------------------------------------------------------------------

MaxNameLength == 75

IsLowerLetter(c) == CharIn(c, LowerLetters)

IsAlnum(c) == CharIn(c, LowerLetters) \/ CharIn(c, UpperLetters) \/ CharIn(c, Digits)

\* re.match(r'^[a-z][a-zA-Z0-9]*$', s) without the trailing-newline case of `$`
FullMatchCamel(s) ==
    /\ Len(s) >= 1
    /\ IsLowerLetter(CharAt(s, 1))
    /\ \A i \in 2..Len(s) : IsAlnum(CharAt(s, i))

\* re.match(r'^[a-z][a-zA-Z0-9]*$', s): `$` also matches before one final "\n"
MatchCamel(s) ==
    \/ FullMatchCamel(s)
    \/ /\ Len(s) >= 2
       /\ CharAt(s, Len(s)) = "\n"
       /\ FullMatchCamel(SubSeq(s, 1, Len(s) - 1))

validate_directory_name(name) ==
    IF Len(name) > MaxNameLength THEN FALSE
    ELSE IF ~MatchCamel(name) THEN FALSE
    ELSE TRUE

\* datetime.now().strftime("%Y%m%d") on the day of the run
Today == "20261106"

\* Mutant: the fallback name carries the audio content type of the taxonomy.
create_fallback_name_aud == "audProcessed" \o Today

create_fallback_name == "processedAudio" \o Today

\* Outcome of client.messages.create: the reply text, or an exception.
RAISES == "<exception>"

\* Mutant: the trimmed reply is returned as it is.
generate_directory_name_unvalidated(has_client, reply) ==
    IF ~has_client THEN create_fallback_name
    ELSE IF reply = RAISES THEN create_fallback_name
    ELSE Strip(reply)

\* What the agent returns for one generation call: has_client is self.client,
\* reply is the text of the model's reply or RAISES.
generate_directory_name_with_feedback(has_client, reply) ==
    IF ~has_client THEN create_fallback_name
    ELSE IF reply = RAISES THEN create_fallback_name
    ELSE IF validate_directory_name(Strip(reply)) THEN Strip(reply)
    ELSE create_fallback_name

\* data_home_mapping: content type -> primary path and the context mappings
\* as a sequence of <<keyword, path>> in insertion order.
data_home_mapping ==
    [aud |-> [primary_path |-> "audio",
              context_mappings |-> << <<"book", "audio/books">>,
                                      <<"mus", "audio/music">>,
                                      <<"pod", "audio/podcasts">>,
                                      <<"rec", "audio/recordings">>,
                                      <<"game", "audio/soundtracks/games">>,
                                      <<"mov", "audio/soundtracks/movies">>,
                                      <<"show", "audio/soundtracks/television">> >>],
     trans |-> [primary_path |-> "documents/Text Documents",
                context_mappings |-> << <<"mtg", "documents/professional">>,
                                        <<"intv", "documents/professional">>,
                                        <<"res", "documents/professional">>,
                                        <<"pers", "documents/personal">>,
                                        <<"fin", "documents/personal/financial">>,
                                        <<"med", "documents/personal/medical">>,
                                        <<"news", "documents/Text Documents">> >>],
     doc |-> [primary_path |-> "documents",
              context_mappings |-> << <<"tmpl", "documents/_templates">>,
                                      <<"contr", "documents/professional/contracts">>,
                                      <<"cert", "documents/professional/certifications">>,
                                      <<"corr", "documents/professional/correspondence">>,
                                      <<"upw", "documents/professional/upwork">>,
                                      <<"strat", "documents/professional/strategicAgent">>,
                                      <<"pol", "documents/professional/StrategyPolitics">>,
                                      <<"fin", "documents/personal/financial">>,
                                      <<"med", "documents/personal/medical">>,
                                      <<"id", "documents/personal/identity">> >>],
     code |-> [primary_path |-> "software",
               context_mappings |-> << <<"exp", "software/development/experiments">>,
                                       <<"lib", "software/development/libraries">>,
                                       <<"tool", "software/development/tools">>,
                                       <<"cfg", "software/configurations">> >>],
     media |-> [primary_path |-> "images",
                context_mappings |-> << <<"vid", "video">>,
                                        <<"img", "images">>,
                                        <<"chart", "images/charts">>,
                                        <<"screenshot", "images/screenshots">> >>],
     arch |-> [primary_path |-> "archives",
               context_mappings |-> << <<"bkup", "archives/backups">>,
                                       <<"dump", "archives/dumps">>,
                                       <<"news", "archives/news">>,
                                       <<"sci", "archives/scientific">>,
                                       <<"data", "archives/datasets">> >>]]

\* Mutant: the content type is taken to be the first three characters.
LeadingLower_three(s) == SubSeq(s, 1, IF Len(s) < 3 THEN Len(s) ELSE 3)

RECURSIVE LeadingLower(_)
\* group(1) of re.match(r'^([a-z]+)', s); "" when there is no match
LeadingLower(s) ==
    IF Len(s) > 0 /\ IsLowerLetter(CharAt(s, 1))
    THEN CharAt(s, 1) \o LeadingLower(SubSeq(s, 2, Len(s)))
    ELSE ""

\* str(source_path).replace("\\", "/")
RECURSIVE NormalizeSlashes(_)
NormalizeSlashes(s) ==
    IF Len(s) = 0 THEN ""
    ELSE (IF CharAt(s, 1) = "\\" THEN "/" ELSE CharAt(s, 1))
         \o NormalizeSlashes(SubSeq(s, 2, Len(s)))

\* Mutant: the source path is searched as it was given.
NewsOverride_as_given(source_path) ==
    source_path # "" /\ Contains(source_path, "News/transcripts")

\* The special rule for news transcripts; source_path "" stands for None.
NewsOverride(source_path) ==
    /\ source_path # ""
    /\ \/ Contains(NormalizeSlashes(source_path), "News/transcripts")
       \/ Contains(NormalizeSlashes(source_path), "/News/transcripts")

\* Mutant: the last keyword of the table that occurs in the name wins.
FirstContextMatch_last(mappings, directory_name) ==
    LET hits == {i \in 1..Len(mappings) : Contains(Lower(directory_name), mappings[i][1])}
    IN IF hits = {} THEN 0 ELSE CHOOSE i \in hits : \A j \in hits : i >= j

\* Mutant: without a keyword in the name the first entry of the table is used.
FirstContextMatch_or_first(mappings, directory_name) ==
    LET hits == {i \in 1..Len(mappings) : Contains(Lower(directory_name), mappings[i][1])}
    IN IF hits = {} THEN 1 ELSE CHOOSE i \in hits : \A j \in hits : i <= j

\* Index of the first context mapping whose keyword occurs in the lowercased
\* name, 0 if none.
FirstContextMatch(mappings, directory_name) ==
    LET hits == {i \in 1..Len(mappings) : Contains(Lower(directory_name), mappings[i][1])}
    IN IF hits = {} THEN 0 ELSE CHOOSE i \in hits : \A j \in hits : i <= j

determine_optimal_parent_directory(directory_name, data_home_root, source_path) ==
    IF NewsOverride(source_path)
    THEN PathJoin(data_home_root, "filetree/roots/documents/Text Documents")
    ELSE LET content_type == LeadingLower(directory_name) IN
         IF content_type = ""
         THEN PathJoin(data_home_root, "filetree/roots/documents")
         ELSE IF content_type \notin DOMAIN data_home_mapping
         THEN PathJoin(data_home_root, "filetree/roots/documents")
         ELSE LET mapping == data_home_mapping[content_type]
                  hit == FirstContextMatch(mapping.context_mappings, directory_name)
              IN IF hit # 0
                 THEN PathJoin(PathJoin(data_home_root, "filetree/roots"),
                               mapping.context_mappings[hit][2])
                 ELSE PathJoin(PathJoin(data_home_root, "filetree/roots"),
                               mapping.primary_path)

\* ------------------------------------------------------------------------
\* DirectoryAnalyzer (directory_analyzer.py): the payload's extraction mode
\* ------------------------------------------------------------------------

\* create_analysis_payload: `build` numbers the calls of a run (the object
\* returned by the build-th call); the mode is set from extract_from_end.
create_analysis_payload(extract_from_end, build) ==
    [extraction_type |-> IF extract_from_end THEN "end_of_files" ELSE "beginning_of_files",
     build |-> build]

create_retry_analysis_payload(build) == create_analysis_payload(TRUE, build)

\* No payload built yet
NoPayload == [extraction_type |-> "", build |-> 0]

\* __init__: the allow-list of extensions and the three caps
readable_extensions ==
    {".txt", ".md", ".py", ".js", ".html", ".css", ".json", ".xml",
     ".yaml", ".yml", ".cfg", ".ini", ".log", ".csv", ".tsv"}

max_snippet_length == 500
max_files_to_analyze == 25
lines_to_extract == 10

\* Largest index of character c in s, 0 when c is not in s
LastIndexOf(s, c) ==
    LET at == {i \in 1..Len(s) : CharAt(s, i) = c}
    IN IF at = {} THEN 0 ELSE CHOOSE i \in at : \A j \in at : j <= i

\* Path.suffix: from the last dot of the final component, "" when the
\* component has no dot or only a leading one
PathSuffix(path) ==
    LET slash == LastIndexOf(path, "/")
        dot == LastIndexOf(path, ".")
    IN IF dot > slash + 1 /\ dot < Len(path) THEN SubSeq(path, dot, Len(path)) ELSE ""

\* content.split('\n')
SplitLines(content) ==
    LET nl == {i \in 1..Len(content) : CharAt(content, i) = "\n"}
        n == Cardinality(nl)
        Pos(k) == IF k = 0 THEN 0
                  ELSE IF k = n + 1 THEN Len(content) + 1
                  ELSE CHOOSE p \in nl : Cardinality({q \in nl : q < p}) = k - 1
    IN [k \in 1..(n + 1) |-> SubSeq(content, Pos(k - 1) + 1, Pos(k) - 1)]

\* seq[:n] and seq[-n:] for n > 0, of a list or of a string
FirstN(seq, n) == SubSeq(seq, 1, IF Len(seq) < n THEN Len(seq) ELSE n)
LastN(seq, n) == SubSeq(seq, IF Len(seq) < n THEN 1 ELSE Len(seq) - n + 1, Len(seq))

\* The snippet of one file that was read (lines 76-92): the beginning of the
\* first lines for every file, whatever the mode
Snippet_beginning(content, extract_from_end) ==
    (IF extract_from_end THEN "[end] " ELSE "[beginning] ")
    \o FirstN(JoinWith("\n", FirstN(SplitLines(content), lines_to_extract)),
              max_snippet_length)

\* The snippet of one file that was read (lines 76-92)
Snippet(content, extract_from_end) ==
    LET lines == SplitLines(content)
    IN IF extract_from_end
       THEN LET relevant_lines == IF Len(lines) > lines_to_extract
                                  THEN LastN(lines, lines_to_extract)
                                  ELSE lines
            IN "[end] " \o LastN(JoinWith("\n", relevant_lines), max_snippet_length)
       ELSE "[beginning] "
            \o FirstN(JoinWith("\n", FirstN(lines, lines_to_extract)), max_snippet_length)

RECURSIVE ScanFiles(_, _, _, _)
\* The loop of extract_text_snippets over the entries rglob yields, in its
\* order; an entry is [path, is_file, opens, content], opens = FALSE when
\* open() or read() raises.
ScanFiles(entries, extract_from_end, snippets, file_count) ==
    IF entries = <<>> \/ file_count >= max_files_to_analyze THEN snippets
    ELSE LET f == Head(entries)
         IN IF \/ ~f.is_file
               \/ Lower(PathSuffix(f.path)) \notin readable_extensions
               \/ ~f.opens
            THEN ScanFiles(Tail(entries), extract_from_end, snippets, file_count)
            ELSE ScanFiles(Tail(entries), extract_from_end,
                           (f.path :> Snippet(f.content, extract_from_end)) @@ snippets,
                           file_count + 1)

extract_text_snippets(directory, extract_from_end) ==
    ScanFiles(directory, extract_from_end, <<>>, 0)

\* create_file_tree: the default of its max_depth parameter (line 23)
max_depth == 3

\* The value stored for a file (lines 36-42); SIZE stands for the text
\* format_file_size gives for its size.
FileInfo(item) ==
    IF item.stat_ok
    THEN "SIZE | " \o (IF PathSuffix(item.name) = "" THEN "no_ext" ELSE PathSuffix(item.name))
    ELSE "unknown_size"

RECURSIVE build_tree(_, _, _)
\* build_tree of create_file_tree (lines 25-46).  files maps the path of a
\* directory (the names below the analyzed directory) to [denied, items]:
\* whether listing it raises PermissionError and the entries iterdir yields,
\* each [name, is_dir, stat_ok].  The nested dict is given as the set of its
\* entries [keys, value]: keys the keys leading to the entry from the
\* outermost dict, value its string, "dict" for a nested dict.
build_tree(files, path, current_depth) ==
    IF current_depth > max_depth
    THEN {[keys |-> <<"...">>, value |-> "max_depth_reached"]}
    ELSE IF files[path].denied
    THEN {[keys |-> <<"[ACCESS_DENIED]">>, value |-> "permission_error"]}
    ELSE UNION {
        IF item.is_dir
        THEN {[keys |-> <<item.name \o "/">>, value |-> "dict"]}
             \cup {[keys |-> <<item.name \o "/">> \o e.keys, value |-> e.value] :
                     e \in build_tree(files, Append(path, item.name), current_depth + 1)}
        ELSE {[keys |-> <<item.name>>, value |-> FileInfo(item)]}
        : item \in files[path].items}

create_file_tree(files) == build_tree(files, <<>>, 0)

\* create_analysis_payload, the snippet part of the payload and its count
SnippetPayload(directory, extract_from_end) ==
    LET text_snippets == extract_text_snippets(directory, extract_from_end)
    IN [text_snippets |-> text_snippets,
        total_files_analyzed |-> Cardinality(DOMAIN text_snippets),
        extraction_type |-> create_analysis_payload(extract_from_end, 1).extraction_type]

\* ------------------------------------------------------------------------
\* Helpers of main_orchastrator.py
\* ------------------------------------------------------------------------

\* Mutant: a limit of four retries.
max_retries_four == 3 + 1

\* max_retries of the naming loop
max_retries == 3

\* Mutant: an unrecognised answer is returned as a third choice.
prompt_user_naming_satisfaction_third(resp) ==
    IF resp = "1" THEN "accept"
    ELSE IF resp = "2" THEN "retry"
    ELSE "stop"

\* prompt_user_naming_satisfaction, one pass of its input loop on the
\* stripped response: what it returns, or "reprompt" when it asks again.
prompt_user_naming_satisfaction(resp) ==
    IF resp = "1" THEN "accept"
    ELSE IF resp = "2" THEN "retry"
    ELSE "reprompt"

\* Mutant: anything but a refusal counts as consent.
prompt_user_consent_unless_no(resp) ==
    IF resp \in {"n", "no"} THEN "no" ELSE "yes"

\* prompt_user_consent, one pass of its input loop on the stripped and
\* lowercased response.
prompt_user_consent(resp) ==
    IF resp \in {"y", "yes"} THEN "yes"
    ELSE IF resp \in {"n", "no"} THEN "no"
    ELSE "reprompt"

DefaultFeedback == "Please make the name more specific and descriptive"

\* Mutant: the empty answer is passed on as it is.
collect_user_feedback_raw(raw) == Strip(raw)

\* collect_user_feedback on the raw line typed by the user
collect_user_feedback(raw) ==
    IF Strip(raw) = "" THEN DefaultFeedback ELSE Strip(raw)

\* any(word in feedback_lower for word in words)
AnyWordIn(feedback_lower, words) == \E word \in words : Contains(feedback_lower, word)

\* Mutant: the buckets exclude each other, the first one that matches wins.
categorize_feedback_exclusive(feedback) ==
    IF feedback = "" THEN ""
    ELSE LET feedback_lower == Lower(feedback)
         IN IF AnyWordIn(feedback_lower, {"generic", "specific", "vague", "unclear"})
            THEN "specificity"
            ELSE IF AnyWordIn(feedback_lower, {"long", "short", "length", "brief", "verbose"})
            THEN "length"
            ELSE IF AnyWordIn(feedback_lower,
                              {"location", "directory", "path", "folder", "place"})
            THEN "location"
            ELSE IF AnyWordIn(feedback_lower, {"topic", "subject", "focus", "about", "theme"})
            THEN "content_focus"
            ELSE IF AnyWordIn(feedback_lower, {"abbreviation", "abbrev", "short", "expand"})
            THEN "abbreviations"
            ELSE IF AnyWordIn(feedback_lower, {"missing", "include", "add", "mention"})
            THEN "missing_info"
            ELSE IF AnyWordIn(feedback_lower, {"context", "background", "situation"})
            THEN "context"
            ELSE "other"

\* categorize_feedback: the seven tests in the order of the code, each
\* appending its tag to categories
categorize_feedback(feedback) ==
    IF feedback = "" THEN ""
    ELSE LET feedback_lower == Lower(feedback)
             c1 == IF AnyWordIn(feedback_lower, {"generic", "specific", "vague", "unclear"})
                   THEN <<"specificity">> ELSE <<>>
             c2 == IF AnyWordIn(feedback_lower,
                                {"long", "short", "length", "brief", "verbose"})
                   THEN Append(c1, "length") ELSE c1
             c3 == IF AnyWordIn(feedback_lower,
                                {"location", "directory", "path", "folder", "place"})
                   THEN Append(c2, "location") ELSE c2
             c4 == IF AnyWordIn(feedback_lower,
                                {"topic", "subject", "focus", "about", "theme"})
                   THEN Append(c3, "content_focus") ELSE c3
             c5 == IF AnyWordIn(feedback_lower, {"abbreviation", "abbrev", "short", "expand"})
                   THEN Append(c4, "abbreviations") ELSE c4
             c6 == IF AnyWordIn(feedback_lower, {"missing", "include", "add", "mention"})
                   THEN Append(c5, "missing_info") ELSE c5
             categories == IF AnyWordIn(feedback_lower,
                                        {"context", "background", "situation"})
                           THEN Append(c6, "context") ELSE c6
         IN IF categories = <<>> THEN "other" ELSE JoinWith("|", categories)

\* Mutant: the retry test is off by one.
LoopBranch_inclusive(user_choice, rc) ==
    IF user_choice = "accept" THEN "accept"
    ELSE IF user_choice = "retry" /\ rc <= max_retries THEN "retry"
    ELSE IF rc >= max_retries THEN "max_retries_reached"
    ELSE "cancel"

\* Branch of the loop body taken for a user choice at retry counter rc
\* (the if / elif / else after the naming prompt).
LoopBranch(user_choice, rc) ==
    IF user_choice = "accept" THEN "accept"
    ELSE IF user_choice = "retry" /\ rc < max_retries THEN "retry"
    ELSE IF rc >= max_retries THEN "max_retries_reached"
    ELSE "cancel"

\* The row log_naming_attempt writes
LogEntry(attempt_number, source_path, generated_name, optimal_parent, user_action, feedback, final_destination, had_audio) ==
    [attempt_number |-> attempt_number,
     source_path |-> source_path,
     generated_name |-> generated_name,
     generated_name_length |-> Len(generated_name),
     optimal_parent_path |-> optimal_parent,
     user_action |-> user_action,
     user_feedback |-> feedback,
     final_destination |-> final_destination,
     has_audio_files |-> IF had_audio THEN "yes" ELSE "no",
     source_is_news_transcript |->
         IF Contains(source_path, "News/transcripts") THEN "yes" ELSE "no",
     content_type_prefix |->
         IF Len(generated_name) >= 4 THEN SubSeq(generated_name, 1, 4) ELSE "",
     feedback_length |-> Len(feedback)]

\* Mutant: the row is not written.
WriteRow_dropped(rows, entry) == rows

\* writer.writerow(log_entry) on the file opened for appending
WriteRow(rows, entry) == Append(rows, entry)

\* A number below 100 as two digits (%H, %M, %S)
Pad2(n) == IF n < 10 THEN "0" \o IntToStr(n) ELSE IntToStr(n)

\* generate_session_id: datetime.now().strftime("%Y%m%d_%H%M%S"); now is the
\* time of day at the call, in whole seconds (the format drops the rest)
generate_session_id(now) ==
    Today \o "_" \o Pad2(now \div 3600) \o Pad2((now % 3600) \div 60) \o Pad2(now % 60)

RECURSIVE LastSlash(_, _)
LastSlash(s, i) == IF i = 0 \/ CharAt(s, i) = "/" THEN i ELSE LastSlash(s, i - 1)

\* Path(p).parent and Path(p).name
Dirname(p) == SubSeq(p, 1, LastSlash(p, Len(p)) - 1)
Basename(p) == SubSeq(p, LastSlash(p, Len(p)) + 1, Len(p))

\* Mutant: the name is taken without looking.
ResolveConflict_unprobed(existing, parent, original_new_name, counter) == original_new_name

\* f"{original_new_name}{counter}"; the probe starts with the bare name
RECURSIVE ResolveConflict(_, _, _, _)
\* The conflict loop: the first of name, name1, name2, ... that does not
\* exist under parent; `counter` is the loop's counter.
ResolveConflict(existing, parent, original_new_name, counter) ==
    LET candidate == IF counter = 1 THEN original_new_name
                     ELSE original_new_name \o IntToStr(counter - 1)
    IN IF PathJoin(parent, candidate) \in existing
       THEN ResolveConflict(existing, parent, original_new_name, counter + 1)
       ELSE candidate

\* ------------------------------------------------------------------------
\* State
\* ------------------------------------------------------------------------

VARIABLES
    env,                   \* argv, environment variables, what the directory holds
    pc,                    \* position of main(); "raised_log", "raised_write" and
                           \* "raised_analysis": ended by the uncaught exception of
                           \* a log write / file write / the directory analysis
    response,              \* last rejected line of the prompt being answered; the
                           \* line the final consent prompt returned on
    data_home_root,        \* "" for None
    target_directory,      \* "" for None
    fs,                    \* the paths that exist
    written_files,         \* files main() wrote
    retry_count,
    feedback_history,
    current_analysis_data, \* the payload kept by main()
    new_directory_name,    \* "" for None / not yet assigned
    optimal_parent_path,   \* "" for None
    final_path,            \* final_path / new_path chosen by the conflict probe
    final_location,
    log,                   \* rows of naming_ab_testing_log.csv of this session
    gen_calls,             \* generation calls made so far
    user_choice,           \* what the naming prompt returned last ("" before)
    exit_code,             \* -1 while running
    call,                  \* arguments of a helper applied on its own (<<>>: none)
    result                 \* <<value>> once the helper has returned, else <<>>

main_vars == <<env, pc, response, data_home_root, target_directory, fs, written_files,
          retry_count, feedback_history, current_analysis_data, new_directory_name,
          optimal_parent_path, final_path, final_location, log, gen_calls,
          user_choice, exit_code>>

vars == <<main_vars, call, result>>

\* Inputs of the model
DataHome == "/dh"
DirectoryPaths == {"/in/News/transcripts/ep1", "/in/misc/ep1"}
Replies == {" transMtgSync\n", "Bad Name", RAISES}
NamingResponses == {"1", "2 ", "3"}
ConsentResponses == {" Yes", "n", "q"}
RawFeedbacks == {"", "  ", " too generic"}

\* Every name a generation call can return
GeneratedNames ==
    {generate_directory_name_with_feedback(c, r) : c \in BOOLEAN, r \in Replies}

\* target_directory for a run: the transcribed_audio subdirectory when audio
\* was processed, else the directory itself
TargetOf(e) ==
    IF e.audio THEN PathJoin(e.directory_path, "transcribed_audio") ELSE e.directory_path

ChainSuffix(i) == IF i = 0 THEN "" ELSE IntToStr(i)

\* Siblings name, name1, ... (k of them) for every name that can be generated
ChainUnder(parent, k) ==
    {PathJoin(parent, n \o ChainSuffix(i)) : n \in GeneratedNames, i \in 0..(k - 1)}

OptimalChain(e, k) ==
    UNION {ChainUnder(determine_optimal_parent_directory(n, DataHome, e.directory_path), k)
           : n \in GeneratedNames}

\* dir_exists: os.path.exists(directory_path); is_dir: the path is a directory
\* (only a directory holds audio files)
Envs ==
    [argv_ok : BOOLEAN, dir_exists : BOOLEAN, is_dir : BOOLEAN,
     data_home : {"unset", "no_roots", "ok"},
     api_key : BOOLEAN, audio : BOOLEAN,
     directory_path : DirectoryPaths,
     io_faults : BOOLEAN]

\* Outcomes of a write that main() does not guard (the log row, the analysis
\* files): it succeeds, or, in a run with I/O faults, it may raise.
WriteOutcomes == IF env.io_faults THEN BOOLEAN ELSE {TRUE}

InitWith(faults) ==
    /\ env \in {e \in Envs : /\ e.io_faults \in faults
                             /\ e.is_dir => e.dir_exists
                             /\ e.audio => e.is_dir}
    /\ pc = "start"
    /\ response = ""
    /\ data_home_root = ""
    /\ target_directory = ""
    /\ \E k_opt \in 0..MaxChain, k_src \in 0..MaxChain :
         /\ k_opt = 0 \/ k_src = 0
         /\ fs = (IF env.dir_exists THEN {env.directory_path} ELSE {})
                \cup (IF env.data_home = "ok"
                      THEN {PathJoin(DataHome, "filetree/roots")}
                           \cup OptimalChain(env, k_opt)
                      ELSE {})
                \cup (IF env.dir_exists
                      THEN ChainUnder(Dirname(TargetOf(env)), k_src)
                      ELSE {})
    /\ written_files = {}
    /\ retry_count = 0
    /\ feedback_history = <<>>
    /\ current_analysis_data = NoPayload
    /\ new_directory_name = ""
    /\ optimal_parent_path = ""
    /\ final_path = ""
    /\ final_location = ""
    /\ log = <<>>
    /\ gen_calls = <<>>
    /\ user_choice = ""
    /\ exit_code = -1
    /\ call = <<>>
    /\ result = <<>>

\* Runs in which the unguarded writes succeed
Init == InitWith({FALSE})

\* Runs in which an unguarded write may raise
InitIOFaults == InitWith({TRUE})

\* ------------------------------------------------------------------------
\* main(): argument checks, audio step, consent prompts, first analysis
\* ------------------------------------------------------------------------

loop_vars == <<retry_count, feedback_history, current_analysis_data, new_directory_name,
               optimal_parent_path, log, gen_calls, user_choice>>
place_vars == <<final_path, final_location>>

\* Mutant: a DATA_HOME that is set is used without looking for its structure.
ValidatedDataHome_unchecked(data_home) == IF data_home = "unset" THEN "" ELSE DataHome

\* Lines 36-61: data_home_root after the checks of DATA_HOME ("" for None)
ValidatedDataHome(data_home) == IF data_home = "ok" THEN DataHome ELSE ""

\* Lines 21-69: usage and existence checks, DATA_HOME validation, audio step.
Startup ==
    /\ pc = "start"
    /\ IF ~env.argv_ok \/ ~env.dir_exists
       THEN /\ pc' = "exit"
            /\ exit_code' = 1
            /\ UNCHANGED <<data_home_root, fs>>
       ELSE /\ pc' = "consent_analysis"
            /\ data_home_root' = ValidatedDataHome(env.data_home)
            /\ fs' = IF env.audio THEN fs \cup {TargetOf(env)} ELSE fs
            /\ UNCHANGED exit_code
    /\ UNCHANGED <<call, result, env, response, target_directory, written_files>>
    /\ UNCHANGED loop_vars
    /\ UNCHANGED place_vars

\* Lines 74-110: consent for the analysis, then the first payload (start of
\* files) and analysis_data.json; the write may raise. For a path that is no
\* directory the payload's file tree raises NotADirectoryError, which nothing
\* catches.
ConsentAnalysis ==
    /\ pc = "consent_analysis"
    /\ \E raw \in ConsentResponses, write_ok \in WriteOutcomes :
         LET answer == prompt_user_consent(Lower(Strip(raw))) IN
         \/ /\ answer = "reprompt"
            /\ response' = Lower(Strip(raw))
            /\ UNCHANGED <<pc, target_directory, written_files, current_analysis_data,
                           exit_code>>
         \/ /\ answer = "no"
            /\ response' = ""
            /\ pc' = "exit"
            /\ exit_code' = 0
            /\ UNCHANGED <<target_directory, written_files, current_analysis_data>>
         \/ /\ answer = "yes"
            /\ response' = ""
            /\ target_directory' = TargetOf(env)
            /\ IF ~env.is_dir
               THEN /\ pc' = "raised_analysis"
                    /\ UNCHANGED <<written_files, current_analysis_data>>
               ELSE
               /\ current_analysis_data' = create_analysis_payload(FALSE, 1)
               /\ IF write_ok
                  THEN /\ written_files' =
                            written_files \cup {PathJoin(TargetOf(env), "analysis_data.json")}
                       /\ pc' = "consent_naming"
                  ELSE /\ pc' = "raised_write"
                       /\ UNCHANGED written_files
            /\ UNCHANGED exit_code
    /\ UNCHANGED <<call, result, env, data_home_root, fs, retry_count, feedback_history,
                   new_directory_name, optimal_parent_path, log, gen_calls, user_choice>>
    /\ UNCHANGED place_vars

\* Lines 119-155: consent for the naming step, agent and session set-up.
ConsentNaming ==
    /\ pc = "consent_naming"
    /\ \E raw \in ConsentResponses :
         LET answer == prompt_user_consent(Lower(Strip(raw))) IN
         \/ /\ answer = "reprompt"
            /\ response' = Lower(Strip(raw))
            /\ UNCHANGED <<pc, exit_code, retry_count, feedback_history>>
         \/ /\ answer = "no"
            /\ response' = ""
            /\ pc' = "exit"
            /\ exit_code' = 0
            /\ UNCHANGED <<retry_count, feedback_history>>
         \/ /\ answer = "yes"
            /\ response' = ""
            /\ retry_count' = 0
            /\ feedback_history' = <<>>
            /\ pc' = "generate"
            /\ UNCHANGED exit_code
    /\ UNCHANGED <<call, result, env, data_home_root, target_directory, fs, written_files,
                   current_analysis_data, new_directory_name, optimal_parent_path,
                   log, gen_calls, user_choice>>
    /\ UNCHANGED place_vars

\* ------------------------------------------------------------------------
\* main(): the naming loop (lines 157-279)
\* ------------------------------------------------------------------------

HadAudio == env.audio

\* The row main() logs inside the loop for the current candidate
LoopEntry(user_action, name, feedback) ==
    LogEntry(retry_count + 1, env.directory_path, name, optimal_parent_path,
             user_action, feedback, "", HadAudio)

\* The while condition of the loop
LoopCondition(rc) == rc <= max_retries

\* Mutant: a retry reuses the payload that main() kept.
PayloadFor_kept(rc, current) == current

\* The payload used by the generation call at counter rc: the payload kept
\* from the first analysis, or a retry payload built for this call
PayloadFor(rc, current) ==
    IF rc = 0 THEN current ELSE create_retry_analysis_payload(current.build + 1)

\* Mutant: a retry passes on only the most recent feedback.
FeedbackFor_latest(rc, history) == IF rc = 0 THEN "None" ELSE history[Len(history)]

\* feedback argument of the generation call at counter rc ("None": no feedback)
FeedbackFor(rc, history) == IF rc = 0 THEN "None" ELSE JoinWith(" | ", history)

\* Mutant: the parent found by an earlier call of the session is kept.
OptimalParentOf_kept(name, root, source_path) ==
    IF optimal_parent_path # "" THEN optimal_parent_path
    ELSE IF name = "" THEN ""
    ELSE determine_optimal_parent_directory(name, root, source_path)

\* The path returned by generate_directory_name_and_path_with_feedback for
\* the name it generated ("" for None)
OptimalParentOf(name, root, source_path) ==
    IF name = "" THEN "" ELSE determine_optimal_parent_directory(name, root, source_path)

\* Lines 157-207: one generation call, with the retry payload rebuilt before
\* it when retry_count > 0; an empty name is logged and leaves the loop.
Generate ==
    /\ pc = "generate"
    /\ \E reply \in Replies, write_ok \in WriteOutcomes, log_ok \in WriteOutcomes :
         LET payload == PayloadFor(retry_count, current_analysis_data)
             writes_file == retry_count > 0 /\ data_home_root # ""
             name == generate_directory_name_with_feedback(env.api_key, reply)
             parent == IF data_home_root # ""
                       THEN OptimalParentOf(name, data_home_root, env.directory_path)
                       ELSE ""
         IN
         IF ~LoopCondition(retry_count)
         THEN /\ pc' = "after_loop"
              /\ UNCHANGED <<current_analysis_data, written_files, new_directory_name,
                             optimal_parent_path, log, gen_calls>>
         ELSE
         /\ current_analysis_data' = payload
         /\ IF writes_file /\ ~write_ok
            THEN /\ pc' = "raised_write"
                 /\ UNCHANGED <<written_files, new_directory_name, optimal_parent_path,
                                log, gen_calls>>
            ELSE /\ written_files' =
                      IF writes_file
                      THEN written_files \cup
                           {PathJoin(target_directory,
                                     "retry_analysis_data_" \o IntToStr(retry_count)
                                         \o ".json")}
                      ELSE written_files
                 /\ gen_calls' = Append(gen_calls,
                                        [retry_count |-> retry_count,
                                         feedback |-> FeedbackFor(retry_count,
                                                                  feedback_history),
                                         extraction_type |-> payload.extraction_type,
                                         payload_build |-> payload.build,
                                         history_length |-> Len(feedback_history),
                                         name |-> name])
                 /\ new_directory_name' = name
                 /\ optimal_parent_path' = parent
                 /\ IF name = ""
                    THEN IF log_ok
                         THEN /\ log' = WriteRow(log,
                                   LogEntry(retry_count + 1, env.directory_path, "", parent,
                                            "generation_failed", "", "", HadAudio))
                              /\ pc' = "after_loop"
                         ELSE /\ pc' = "raised_log"
                              /\ UNCHANGED log
                    ELSE /\ pc' = "prompt_naming"
                         /\ UNCHANGED log
    /\ UNCHANGED <<call, result, env, response, data_home_root, target_directory, fs, retry_count,
                   feedback_history, user_choice, exit_code>>
    /\ UNCHANGED place_vars

\* Lines 219-234 and 253-279: the naming prompt and the branches that leave
\* the loop; a retry that is still allowed goes on to the feedback prompt.
PromptNaming ==
    /\ pc = "prompt_naming"
    /\ \E raw \in NamingResponses, log_ok \in WriteOutcomes :
         LET choice == prompt_user_naming_satisfaction(Strip(raw))
             branch == LoopBranch(choice, retry_count)
         IN
         IF choice = "reprompt"
         THEN /\ response' = Strip(raw)
              /\ UNCHANGED <<pc, log, user_choice>>
         ELSE /\ response' = ""
              /\ user_choice' = choice
              /\ IF branch = "retry"
                 THEN /\ pc' = "collect_feedback"
                      /\ UNCHANGED log
                 ELSE IF log_ok
                 THEN /\ log' = WriteRow(log, LoopEntry(branch, new_directory_name, ""))
                      /\ pc' = "after_loop"
                 ELSE /\ pc' = "raised_log"
                      /\ UNCHANGED log
    /\ UNCHANGED <<call, result, env, data_home_root, target_directory, fs, written_files, retry_count,
                   feedback_history, current_analysis_data, new_directory_name,
                   optimal_parent_path, gen_calls, exit_code>>
    /\ UNCHANGED place_vars

\* Mutant: the history keeps only the latest feedback.
HistoryAfter_latest_only(history, feedback) == <<feedback>>

\* Line 238: feedback_history.append(feedback)
HistoryAfter(history, feedback) == Append(history, feedback)

\* Lines 235-252: the retry step.
CollectFeedback ==
    /\ pc = "collect_feedback"
    /\ \E raw \in RawFeedbacks, log_ok \in WriteOutcomes :
         LET feedback == collect_user_feedback(raw) IN
         /\ feedback_history' = HistoryAfter(feedback_history, feedback)
         /\ IF log_ok
            THEN /\ log' = WriteRow(log, LoopEntry("retry", new_directory_name, feedback))
                 /\ retry_count' = retry_count + 1
                 /\ pc' = "generate"
            ELSE /\ pc' = "raised_log"
                 /\ UNCHANGED <<log, retry_count>>
    /\ UNCHANGED <<call, result, env, response, data_home_root, target_directory, fs, written_files,
                   current_analysis_data, new_directory_name, optimal_parent_path,
                   gen_calls, user_choice, exit_code>>
    /\ UNCHANGED place_vars

\* ------------------------------------------------------------------------
\* main(): placement (lines 281-451)
\* ------------------------------------------------------------------------

\* Mutant: the placement rows name the first candidate of the session.
PlaceEntry_first_candidate(user_action, optimal_parent, feedback, final_destination) ==
    LogEntry(retry_count + 1, env.directory_path, gen_calls[1].name, optimal_parent,
             user_action, feedback, final_destination, HadAudio)

\* The row main() logs in the placement stage
PlaceEntry(user_action, optimal_parent, feedback, final_destination) ==
    LogEntry(retry_count + 1, env.directory_path, new_directory_name, optimal_parent,
             user_action, feedback, final_destination, HadAudio)

\* Line 282: the placement stage runs when a name is set
NameChosen(name) == name # ""

\* Line 283: placement under DATA-HOME
UsesDataHome == data_home_root # "" /\ optimal_parent_path # ""

\* Lines 282-299 and 386-402, 449-451: after the loop, the conflict probe in
\* the parent the directory is to be placed in; without a name the run ends.
ResolvePlacement ==
    /\ pc = "after_loop"
    /\ IF NameChosen(new_directory_name)
       THEN LET parent == IF UsesDataHome THEN optimal_parent_path
                          ELSE Dirname(target_directory)
                final_name == ResolveConflict(fs, parent, new_directory_name, 1)
            IN /\ final_path' = PathJoin(parent, final_name)
               /\ new_directory_name' = final_name
               /\ pc' = IF UsesDataHome THEN "consent_move" ELSE "consent_rename"
               /\ UNCHANGED final_location
       ELSE /\ final_location' = target_directory
            /\ pc' = "done"
            /\ UNCHANGED <<final_path, new_directory_name>>
    /\ UNCHANGED <<call, result, env, response, data_home_root, target_directory, fs, written_files,
                   retry_count, feedback_history, current_analysis_data,
                   optimal_parent_path, log, gen_calls, user_choice, exit_code>>

\* Lines 301-310 and 404-413: the final consent prompt.
ConsentPlacement ==
    /\ pc \in {"consent_move", "consent_rename"}
    /\ \E raw \in ConsentResponses :
         LET answer == prompt_user_consent(Lower(Strip(raw))) IN
         \/ /\ answer = "reprompt"
            /\ response' = Lower(Strip(raw))
            /\ UNCHANGED <<pc, exit_code>>
         \/ /\ answer = "no"
            /\ response' = Lower(Strip(raw))
            /\ pc' = "exit"
            /\ exit_code' = 0
         \/ /\ answer = "yes"
            /\ response' = Lower(Strip(raw))
            /\ pc' = IF pc = "consent_move" THEN "move" ELSE "rename"
            /\ UNCHANGED exit_code
    /\ UNCHANGED <<call, result, env, data_home_root, target_directory, fs, written_files>>
    /\ UNCHANGED loop_vars
    /\ UNCHANGED place_vars

\* shutil.move(src, dst) that does not raise: into dst when dst is an existing
\* directory, else to dst.
MoveLanding(existing, src, dst) ==
    IF dst \in existing THEN PathJoin(dst, Basename(src)) ELSE dst

\* Ways shutil.move can end: it moved the directory; it raised before
\* anything was created; or, the destination being on another file system, it
\* raised while copying or while removing the source, which leaves what was
\* copied at the destination and the source in place.
MoveOutcomes == {"moved", "move_raises", "move_raises_copy_left"}

\* Mutant: the row names the path that shutil.move returned.
LoggedMoveDestination_returned(chosen, landing) == landing

\* final_destination of the moved_successfully row: str(final_path), the
\* path chosen by the probe; the value shutil.move returns is dropped
\* (lines 319 and 330).
LoggedMoveDestination(chosen, landing) == chosen

\* Lines 313-334: makedirs, the move and its log row. Either call may raise;
\* a raising log call is caught by the same handler as a raising move.
MoveOptimal ==
    /\ pc = "move"
    /\ \E outcome \in {"makedirs_raises"} \cup MoveOutcomes, log_ok \in WriteOutcomes :
         LET landing == MoveLanding(fs, target_directory, final_path) IN
         IF outcome = "makedirs_raises"
         THEN /\ pc' = "move_failed"
              /\ UNCHANGED <<fs, final_location, log>>
         ELSE IF outcome = "move_raises" \/ landing \in fs
         THEN /\ fs' = fs \cup {optimal_parent_path}
              /\ pc' = "move_failed"
              /\ UNCHANGED <<final_location, log>>
         ELSE IF outcome = "move_raises_copy_left"
         THEN /\ fs' = fs \cup {optimal_parent_path, landing}
              /\ pc' = "move_failed"
              /\ UNCHANGED <<final_location, log>>
         ELSE /\ fs' = ((fs \cup {optimal_parent_path}) \ {target_directory})
                       \cup {landing}
              /\ final_location' = final_path
              /\ IF log_ok
                 THEN /\ log' = WriteRow(log,
                                PlaceEntry("moved_successfully", optimal_parent_path, "",
                                           LoggedMoveDestination(final_path, landing)))
                      /\ pc' = "done"
                 ELSE /\ pc' = "move_failed"
                      /\ UNCHANGED log
    /\ UNCHANGED <<call, result, env, response, data_home_root, target_directory, written_files,
                   retry_count, feedback_history, current_analysis_data,
                   new_directory_name, optimal_parent_path, final_path, gen_calls,
                   user_choice, exit_code>>

\* Path.rename(src, dst) can succeed only while src exists
RenamePossible(existing, src) == src \in existing

\* Lines 335-385: the handler of a failed move: its log row, the local rename
\* and the row for its outcome. A raising move_failed row ends the run; the
\* rename and its success row sit in one try block.
LocalRenameFallback ==
    /\ pc = "move_failed"
    /\ \E log1_ok \in WriteOutcomes, rename_ok \in BOOLEAN, log2_ok \in WriteOutcomes,
          log3_ok \in WriteOutcomes :
         LET new_path == PathJoin(Dirname(target_directory), new_directory_name)
             failed == PlaceEntry("move_failed", optimal_parent_path, "Move error", "")
             renamed == PlaceEntry("local_rename_success", "local_fallback", "", new_path)
             total == PlaceEntry("total_failure", "local_fallback", "Local rename error",
                                 target_directory)
         IN
         IF ~log1_ok
         THEN /\ pc' = "raised_log"
              /\ UNCHANGED <<fs, final_location, log>>
         ELSE IF rename_ok /\ RenamePossible(fs, target_directory)
         THEN /\ fs' = (fs \ {target_directory}) \cup {new_path}
              /\ IF log2_ok
                 THEN /\ final_location' = new_path
                      /\ log' = WriteRow(WriteRow(log, failed), renamed)
                      /\ pc' = "done"
                 ELSE /\ final_location' = target_directory
                      /\ IF log3_ok
                         THEN /\ log' = WriteRow(WriteRow(log, failed), total)
                              /\ pc' = "done"
                         ELSE /\ log' = WriteRow(log, failed)
                              /\ pc' = "raised_log"
         ELSE /\ final_location' = target_directory
              /\ UNCHANGED fs
              /\ IF log3_ok
                 THEN /\ log' = WriteRow(WriteRow(log, failed), total)
                      /\ pc' = "done"
                 ELSE /\ log' = WriteRow(log, failed)
                      /\ pc' = "raised_log"
    /\ UNCHANGED <<call, result, env, response, data_home_root, target_directory, written_files,
                   retry_count, feedback_history, current_analysis_data,
                   new_directory_name, optimal_parent_path, final_path, gen_calls,
                   user_choice, exit_code>>

\* Lines 415-448: the rename without DATA-HOME and the row for its outcome.
LocalRename ==
    /\ pc = "rename"
    /\ \E rename_ok \in BOOLEAN, log1_ok \in WriteOutcomes, log2_ok \in WriteOutcomes :
         LET renamed == PlaceEntry("local_rename_success", "no_data_home", "", final_path)
             failed == PlaceEntry("rename_failed", "no_data_home", "Rename error",
                                  target_directory)
         IN
         IF rename_ok /\ RenamePossible(fs, target_directory)
         THEN /\ fs' = (fs \ {target_directory}) \cup {final_path}
              /\ IF log1_ok
                 THEN /\ final_location' = final_path
                      /\ log' = WriteRow(log, renamed)
                      /\ pc' = "done"
                 ELSE /\ final_location' = target_directory
                      /\ IF log2_ok
                         THEN /\ log' = WriteRow(log, failed)
                              /\ pc' = "done"
                         ELSE /\ pc' = "raised_log"
                              /\ UNCHANGED log
         ELSE /\ final_location' = target_directory
              /\ UNCHANGED fs
              /\ IF log2_ok
                 THEN /\ log' = WriteRow(log, failed)
                      /\ pc' = "done"
                 ELSE /\ pc' = "raised_log"
                      /\ UNCHANGED log
    /\ UNCHANGED <<call, result, env, response, data_home_root, target_directory, written_files,
                   retry_count, feedback_history, current_analysis_data,
                   new_directory_name, optimal_parent_path, final_path, gen_calls,
                   user_choice, exit_code>>

\* Lines 453-469: the closing summary; main() returns.
Finish ==
    /\ pc = "done"
    /\ pc' = "exit"
    /\ exit_code' = 0
    /\ UNCHANGED <<call, result, env, response, data_home_root, target_directory, fs, written_files>>
    /\ UNCHANGED loop_vars
    /\ UNCHANGED place_vars

Next ==
    \/ Startup
    \/ ConsentAnalysis
    \/ ConsentNaming
    \/ Generate
    \/ PromptNaming
    \/ CollectFeedback
    \/ ResolvePlacement
    \/ ConsentPlacement
    \/ MoveOptimal
    \/ LocalRenameFallback
    \/ LocalRename
    \/ Finish

Spec == Init /\ [][Next]_vars

SpecIOFaults == InitIOFaults /\ [][Next]_vars

\* The runs of one directory that reach the negotiation loop: the arguments
\* are valid, the directory exists, holds no audio and has no name conflict
\* ahead; DATA_HOME and the API key are as in Init.
InitLive ==
    /\ Init
    /\ env.argv_ok /\ env.dir_exists /\ env.is_dir /\ ~env.audio
    /\ env.directory_path = "/in/misc/ep1"
    /\ fs \subseteq {env.directory_path, PathJoin(DataHome, "filetree/roots")}

\* Every generation call returns, the user answers the naming prompt with a
\* valid choice after finitely many invalid ones, and the feedback prompt
\* returns.
SpecLive ==
    /\ InitLive
    /\ [][Next]_vars
    /\ WF_vars(Generate)
    /\ WF_vars(PromptNaming /\ pc' # pc)
    /\ WF_vars(CollectFeedback)

\* Another process creates a directory at the path the probe chose, after
\* the probe of lines 287-294 and before the move of line 319.
ExternalCreates ==
    /\ pc \in {"consent_move", "move"}
    /\ final_path \notin fs
    /\ fs' = fs \cup {final_path}
    /\ UNCHANGED <<call, result, env, pc, response, data_home_root, target_directory,
                   written_files, exit_code>>
    /\ UNCHANGED loop_vars
    /\ UNCHANGED place_vars

NextRace == Next \/ ExternalCreates

\* Runs beside which another process may occupy the chosen path
SpecRace == Init /\ [][NextRace]_vars

\* ------------------------------------------------------------------------
\* Helpers applied on their own to enumerated arguments
\* ------------------------------------------------------------------------

\* main() is not running
NoRun ==
    /\ env = [argv_ok |-> FALSE, dir_exists |-> FALSE, is_dir |-> FALSE,
              data_home |-> "unset",
              api_key |-> FALSE, audio |-> FALSE, directory_path |-> "",
              io_faults |-> FALSE]
    /\ pc = "idle"
    /\ response = ""
    /\ data_home_root = ""
    /\ target_directory = ""
    /\ fs = {}
    /\ written_files = {}
    /\ retry_count = 0
    /\ feedback_history = <<>>
    /\ current_analysis_data = NoPayload
    /\ new_directory_name = ""
    /\ optimal_parent_path = ""
    /\ final_path = ""
    /\ final_location = ""
    /\ log = <<>>
    /\ gen_calls = <<>>
    /\ user_choice = ""
    /\ exit_code = -1

\* The conflict probe of lines 285-299 and 389-402 for a name, a parent and
\* a set of existing paths.
ProbeParent == "/dh/filetree/roots/documents"
ProbeBases == {"transMtgSync", "docNotes"}

\* Paths that may exist beside the candidate: base, base1, ..., a sibling
\* with a larger suffix, and an unrelated one
ProbeSiblings(base) ==
    {PathJoin(ProbeParent, base \o ChainSuffix(i)) : i \in 0..MaxSuffix}
    \cup {PathJoin(ProbeParent, base \o "10"), PathJoin(ProbeParent, "other")}

ProbeCalls ==
    UNION {{[existing |-> S, parent |-> ProbeParent, name |-> b]
            : S \in SUBSET ProbeSiblings(b)} : b \in ProbeBases}

ProbeInit ==
    /\ NoRun
    /\ call \in ProbeCalls
    /\ result = <<>>

Probe ==
    /\ result = <<>>
    /\ result' = <<ResolveConflict(call.existing, call.parent, call.name, 1)>>
    /\ UNCHANGED <<main_vars, call>>

ProbeNext == Probe

SpecProbe == ProbeInit /\ [][ProbeNext]_vars

\* determine_optimal_parent_directory for a name, a DATA-HOME root and a
\* source path ("": none given).
RouteNames ==
    {"audPodShow", "transMtgSync", "transNotes", "docFinTax", "codeToolCli",
     "mediaVidClip", "archNewsDump", "dataSalesQ3", "imgChartA", "vidClip",
     "litNovel", "gameSave", "softTool", "audio", "Report", "2024report", "",
     "transNewsMtg", "docMedFin", "codeXp1", "archive2024",
     "audLive", "docPlan", "codeApp", "mediaAlbum", "archOld"}

RouteRoots == {"/dh", "/mnt/data home"}

RouteSources ==
    {"/in/News/transcripts/ep1", "C:\\News\\transcripts\\ep1", "/in/news/transcripts/ep1",
     "/in/misc/ep1", ""}

RouteCalls ==
    [directory_name : RouteNames, data_home_root : RouteRoots, source_path : RouteSources]

RouteInit ==
    /\ NoRun
    /\ call \in RouteCalls
    /\ result = <<>>

Route ==
    /\ result = <<>>
    /\ result' = <<determine_optimal_parent_directory(
                       call.directory_name, call.data_home_root, call.source_path)>>
    /\ UNCHANGED <<main_vars, call>>

RouteNext == Route

SpecRoute == RouteInit /\ [][RouteNext]_vars

\* validate_directory_name for a name: every string over ValidateAlphabet up
\* to MaxShortLen characters, and names around the length limit.
ValidateAlphabet == {"a", "z", "Z", "7", "-", " ", "\n"}

RECURSIVE StringsUpTo(_)
StringsUpTo(n) ==
    IF n = 0 THEN {""}
    ELSE LET shorter == StringsUpTo(n - 1)
         IN shorter \cup {t \o c : t \in shorter, c \in ValidateAlphabet}

RECURSIVE Repeat(_, _)
\* c * n
Repeat(c, n) ==
    IF n = 0 THEN ""
    ELSE LET half == Repeat(c, n \div 2)
         IN half \o half \o (IF n % 2 = 1 THEN c ELSE "")

ValidateNames ==
    StringsUpTo(MaxShortLen)
    \cup {Repeat("a", 75), Repeat("a", 76), "b" \o Repeat("Z", 74), "Q" \o Repeat("a", 74),
          Repeat("a", 74) \o "\n", Repeat("a", 75) \o "\n", "transMtgSync", "trans_mtg"}

ValidateInit ==
    /\ NoRun
    /\ call \in [name : ValidateNames]
    /\ result = <<>>

Validate ==
    /\ result = <<>>
    /\ result' = <<validate_directory_name(call.name)>>
    /\ UNCHANGED <<main_vars, call>>

ValidateNext == Validate

SpecValidate == ValidateInit /\ [][ValidateNext]_vars

\* generate_directory_name / generate_directory_name_with_feedback for a
\* client (configured or not) and a reply of the model (or an exception).
GenerateReplies ==
    ValidateNames \cup {" " \o n \o "\n" : n \in ValidateNames} \cup {RAISES}

GenerateInit ==
    /\ NoRun
    /\ call \in [has_client : BOOLEAN, reply : GenerateReplies]
    /\ result = <<>>

GenerateName ==
    /\ result = <<>>
    /\ result' = <<generate_directory_name_with_feedback(call.has_client, call.reply)>>
    /\ UNCHANGED <<main_vars, call>>

GenerateNext == GenerateName

SpecGenerate == GenerateInit /\ [][GenerateNext]_vars

\* Runs of the program obtaining their session ids (line 142) while the
\* clock goes on: call.clock is the time of day in seconds, result the ids
\* of the runs in the order they asked.
ClockStart == 13 * 3600 + 59 * 60 + 57

SessionsInit ==
    /\ NoRun
    /\ call = [clock |-> ClockStart]
    /\ result = <<>>

ClockTick ==
    /\ call.clock < ClockStart + MaxClock
    /\ call' = [clock |-> call.clock + 1]
    /\ UNCHANGED <<main_vars, result>>

StartSession ==
    /\ Len(result) < MaxRuns
    /\ result' = Append(result, generate_session_id(call.clock))
    /\ UNCHANGED <<main_vars, call>>

SessionsNext == ClockTick \/ StartSession

SpecSessions == SessionsInit /\ [][SessionsNext]_vars

\* extract_text_snippets / create_analysis_payload for a directory and a
\* mode.  The directories: n entries whose extension, kind and content go
\* round the lists below, starting at a shift.
NumberedLines(n, width) ==
    JoinWith("\n", [k \in 1..n |-> IntToStr(k) \o Repeat("-", width)])

SnippetExtensions == <<".txt", ".TXT", ".md", ".exe", ".Json", ".py", "", ".log">>

SnippetContents ==
    <<"", "alpha", NumberedLines(3, 2) \o "\n", NumberedLines(10, 1),
      NumberedLines(11, 1), "B" \o Repeat("x", 500) \o "E", NumberedLines(12, 60),
      NumberedLines(9, 1) \o "\n", "B" \o Repeat("x", 498) \o "E",
      NumberedLines(2, 300), "\n">>

SnippetDirectory(n, shift) ==
    [i \in 1..n |->
        LET ext == SnippetExtensions[((i + shift) % Len(SnippetExtensions)) + 1]
            stem == IF i % 13 = 5 /\ ext # "" THEN "" ELSE "f" \o IntToStr(i)
        IN
        [path |-> (IF i % 4 = 0 THEN "sub/" ELSE "") \o stem \o ext,
         is_file |-> (i + shift) % 9 # 3,
         opens |-> (i + 2 * shift) % 11 # 1,
         content |-> SnippetContents[((i + 3 * shift) % Len(SnippetContents)) + 1]]]

SnippetsInit ==
    /\ NoRun
    /\ call \in [n : 0..MaxFiles, shift : 0..MaxShift, extract_from_end : BOOLEAN]
    /\ result = <<>>

ExtractSnippets ==
    /\ result = <<>>
    /\ result' = <<SnippetPayload(SnippetDirectory(call.n, call.shift),
                                  call.extract_from_end)>>
    /\ UNCHANGED <<main_vars, call>>

SnippetsNext == ExtractSnippets

SpecSnippets == SnippetsInit /\ [][SnippetsNext]_vars

\* create_file_tree for a directory.  The directories: a chain d/d/.../d of
\* call.depth directories below the analyzed one; the directory at level k
\* of the chain holds a file f.txt when k is in call.files_at and a
\* directory s with one file g.md when k = call.side; listing the chain
\* directory at level call.denied, and s when call.side_denied, raises
\* PermissionError (-1: none).
ChainPath(k) == [i \in 1..k |-> "d"]

TreeFiles(c) ==
    [p \in {ChainPath(k) : k \in 0..c.depth}
           \cup (IF c.side >= 0 THEN {Append(ChainPath(c.side), "s")} ELSE {}) |->
        IF p = ChainPath(Len(p))
        THEN [denied |-> Len(p) = c.denied,
              items |-> (IF Len(p) < c.depth
                         THEN {[name |-> "d", is_dir |-> TRUE, stat_ok |-> TRUE]} ELSE {})
                        \cup (IF Len(p) \in c.files_at
                              THEN {[name |-> "f.txt", is_dir |-> FALSE, stat_ok |-> TRUE]}
                              ELSE {})
                        \cup (IF Len(p) = c.side
                              THEN {[name |-> "s", is_dir |-> TRUE, stat_ok |-> TRUE]}
                              ELSE {})]
        ELSE [denied |-> c.side_denied,
              items |-> {[name |-> "g", is_dir |-> FALSE, stat_ok |-> ~c.stat_fails]}]]

TreeCalls ==
    {c \in [depth : 0..MaxTreeDepth, files_at : SUBSET (0..MaxTreeDepth),
            side : -1..MaxTreeDepth, denied : -1..MaxTreeDepth,
            side_denied : BOOLEAN, stat_fails : BOOLEAN] :
        /\ c.files_at \subseteq 0..c.depth
        /\ c.side <= c.depth
        /\ c.denied <= c.depth
        /\ (c.side_denied \/ c.stat_fails) => c.side >= 0
        /\ ~(c.side_denied /\ c.stat_fails)}

TreeInit ==
    /\ NoRun
    /\ call \in TreeCalls
    /\ result = <<>>

BuildTree ==
    /\ result = <<>>
    /\ result' = <<create_file_tree(TreeFiles(call))>>
    /\ UNCHANGED <<main_vars, call>>

TreeNext == BuildTree

SpecTree == TreeInit /\ [][TreeNext]_vars

\* categorize_feedback for a feedback text: the empty one, the default one
\* and two fragments joined by a space.
FeedbackFragments ==
    {"", "Generic", "too LONG", "short", "wrong folder", "theme", "Abbrev", "add",
     "Context", "fine", "MISSING", "re-place"}

CategorizeFeedbacks ==
    {"", DefaultFeedback} \cup {a \o " " \o b : a, b \in FeedbackFragments}

CategorizeInit ==
    /\ NoRun
    /\ call \in [feedback : CategorizeFeedbacks]
    /\ result = <<>>

Categorize ==
    /\ result = <<>>
    /\ result' = <<categorize_feedback(call.feedback)>>
    /\ UNCHANGED <<main_vars, call>>

CategorizeNext == Categorize

SpecCategorize == CategorizeInit /\ [][CategorizeNext]_vars

\* ------------------------------------------------------------------------
\* Properties
\* ------------------------------------------------------------------------

\* The directory is no longer at the path it was analysed at
DirectoryMoved == target_directory # "" /\ target_directory \notin fs

\* A move or rename is being carried out or was carried out
PlacementStarted == pc \in {"move", "rename", "move_failed"} \/ DirectoryMoved

\* user_action of the row with which the loop was left ("none": not yet)
LoopEnd == IF Len(log) > retry_count THEN log[retry_count + 1].user_action ELSE "none"

Last(seq) == seq[Len(seq)]

\* C1: a move or rename of the target directory happens only after the loop
\* was left with 'accept' or with 'max_retries_reached'.
C1_MoveOnlyAfterAcceptance ==
    PlacementStarted => LoopEnd \in {"accept", "max_retries_reached"}

C1_Witness ==
    /\ DirectoryMoved
    /\ final_path \in fs
    /\ LoopEnd = "max_retries_reached"

\* C2: at most retry_limit + 1 = 4 generation calls are made, and every
\* logged attempt_number lies in 1..4.
C2_AttemptBound ==
    /\ Len(gen_calls) <= 4
    /\ \A i \in DOMAIN log : log[i].attempt_number \in 1..4

C2_Witness ==
    /\ Len(gen_calls) = 4
    /\ \E i \in DOMAIN log : log[i].attempt_number = 4

\* The feedback strings a user of the model can give, after stripping
GivenFeedbacks == {Strip(raw) : raw \in RawFeedbacks} \ {""}

\* C3: a retry step is taken only while the retry counter is below 3; it
\* appends one non-empty feedback string (the default complaint for an empty
\* answer), logs one 'retry' row with that feedback and the current attempt
\* number, and increments the counter by exactly 1 before the next generation
\* call.
C3_StepOk ==
    /\ (pc # "collect_feedback" /\ pc' = "collect_feedback") => retry_count < 3
    /\ (\/ feedback_history' # feedback_history
        \/ retry_count' # retry_count
        \/ (Len(log') > Len(log) /\ Last(log').user_action = "retry"))
       => /\ pc = "collect_feedback"
          /\ retry_count < 3
          /\ Len(feedback_history') = Len(feedback_history) + 1
          /\ feedback_history' = Append(feedback_history, Last(feedback_history'))
          /\ Last(feedback_history') # ""
          /\ Last(feedback_history') \in GivenFeedbacks \cup {DefaultFeedback}
          /\ log' = Append(log, Last(log'))
          /\ Last(log').user_action = "retry"
          /\ Last(log').user_feedback = Last(feedback_history')
          /\ Last(log').attempt_number = retry_count + 1
          /\ retry_count' = retry_count + 1
          /\ pc' = "generate"
          /\ gen_calls' = gen_calls

C3_RetryStep == [][C3_StepOk]_vars

C3_Witness ==
    /\ pc = "generate"
    /\ retry_count = 2
    /\ feedback_history = <<DefaultFeedback, "too generic">>
    /\ Len(log) = 2
    /\ log[1].user_feedback = DefaultFeedback
    /\ log[2].user_action = "retry"
    /\ log[2].user_feedback = "too generic"
    /\ log[2].attempt_number = 2

RowsWith(action) == {i \in DOMAIN log : log[i].user_action = action}

\* C4: a retry request at retry counter 3 collects no feedback, logs exactly
\* one 'max_retries_reached' row, leaves the loop, and keeps the candidate of
\* the most recent generation call.
C4_StepOk ==
    (pc = "prompt_naming" /\ pc' # "prompt_naming" /\ retry_count = 3
        /\ user_choice' = "retry")
    => /\ pc' = "after_loop"
       /\ feedback_history' = feedback_history
       /\ retry_count' = retry_count
       /\ gen_calls' = gen_calls
       /\ log' = Append(log, Last(log'))
       /\ Last(log').user_action = "max_retries_reached"
       /\ Last(log').attempt_number = 4
       /\ Last(log').generated_name = Last(gen_calls).name
       /\ Cardinality({i \in DOMAIN log' : log'[i].user_action = "max_retries_reached"}) = 1
       /\ new_directory_name' = Last(gen_calls).name

C4_LimitReached == [][C4_StepOk]_vars

C4_Witness ==
    /\ pc = "after_loop"
    /\ user_choice = "retry"
    /\ retry_count = 3
    /\ Len(feedback_history) = 3
    /\ Last(log).user_action = "max_retries_reached"
    /\ Len(gen_calls) = 4
    /\ gen_calls[3].name # gen_calls[4].name
    /\ new_directory_name = gen_calls[4].name

\* C5: when the user answers the naming prompt with neither accept nor retry
\* while a retry is still available, the loop logs 'cancel' and exits, and
\* the run ends without a move or rename.
C5_StepOk ==
    (pc = "prompt_naming" /\ retry_count < 3 /\ response' \notin {"", "1", "2"})
    => /\ pc' = "after_loop"
       /\ Len(log') = Len(log) + 1
       /\ Last(log').user_action = "cancel"

C5_StopLogsCancel ==
    /\ [][C5_StepOk]_vars
    /\ [](RowsWith("cancel") # {} => ~PlacementStarted)

\* C7: the rows written by the loop are k 'retry' rows (0 <= k <= 3) with
\* attempt numbers 1..k in order, then exactly one terminal row with attempt
\* number k + 1; the loop ends with an accepted candidate or with none.
TerminalActions == {"accept", "max_retries_reached", "cancel", "generation_failed"}

InLoop == pc \in {"generate", "prompt_naming", "collect_feedback"}

LoopLeft == pc \in {"after_loop", "consent_move", "consent_rename", "move", "rename"}

C7_LoopLogShape ==
    /\ (InLoop \/ LoopLeft) =>
          /\ retry_count \in 0..3
          /\ \A i \in 1..retry_count :
                /\ i <= Len(log)
                /\ log[i].user_action = "retry"
                /\ log[i].attempt_number = i
    /\ InLoop => Len(log) = retry_count
    /\ LoopLeft =>
          /\ Len(log) = retry_count + 1
          /\ log[retry_count + 1].user_action \in TerminalActions
          /\ log[retry_count + 1].attempt_number = retry_count + 1
          /\ (log[retry_count + 1].user_action \in {"accept", "max_retries_reached"})
                <=> (new_directory_name # "")
          /\ (log[retry_count + 1].user_action \in {"cancel", "generation_failed"})
                <=> (new_directory_name = "")

C7_Witness ==
    /\ pc = "after_loop"
    /\ retry_count = 2
    /\ Len(log) = 3
    /\ log[3].user_action = "accept"
    /\ log[3].attempt_number = 3
    /\ new_directory_name # ""

\* main() returned or exited with code 0
EndedNormally == pc = "done" \/ (pc = "exit" /\ exit_code = 0)

\* user_action of the rows written after the generation attempts' own rows
PlacementRows ==
    [i \in 1..(Len(log) - Len(gen_calls)) |-> log[Len(gen_calls) + i].user_action]

\* C8 as stated: when a run terminates, the number of log rows equals the
\* number of generation attempts plus at most one extra row, the rows of the
\* placement stage included.
C8_AtMostOneExtraRow ==
    EndedNormally => Len(log) \in {Len(gen_calls), Len(gen_calls) + 1}

\* C8 amended: when a run ends normally, the log holds one row per generation
\* attempt plus the rows of the placement stage: none, one, or two when the
\* optimal move failed (move_failed, then local_rename_success or
\* total_failure).
C8_PlacementRowsBounded ==
    EndedNormally =>
       /\ Len(log) >= Len(gen_calls)
       /\ PlacementRows \in {<<>>,
                             <<"moved_successfully">>,
                             <<"local_rename_success">>,
                             <<"rename_failed">>,
                             <<"move_failed", "local_rename_success">>,
                             <<"move_failed", "total_failure">>}

C8_Witness ==
    /\ pc = "exit"
    /\ exit_code = 0
    /\ Len(gen_calls) = 2
    /\ Len(log) = 4
    /\ PlacementRows = <<"move_failed", "local_rename_success">>

\* C9: a raising log write never ends the run and never changes its outcome:
\* main() is not left by an exception of log_naming_attempt, and a run that
\* completes reports the place where the directory is, a moved directory
\* being reported as moved.
C9_LogFailureHarmless ==
    /\ pc # "raised_log"
    /\ pc = "done" =>
          /\ final_location \in fs
          /\ DirectoryMoved =>
                Last(log).user_action \in {"moved_successfully", "local_rename_success"}

\* C10 as stated: feedback_history has length 3 at the third generation call.
C10_LengthThreeAtThirdCall ==
    Len(gen_calls) >= 3 => gen_calls[3].history_length = 3

\* C10 amended: with a retry requested after every candidate,
\* feedback_history has length 2 at the third generation call and length 3 at
\* the fourth (the call of the third retry), and the fourth retry request is
\* refused and forces acceptance with a 'max_retries_reached' row.
C10_ScenarioC ==
    /\ \A i \in DOMAIN gen_calls :
          /\ gen_calls[i].history_length = i - 1
          /\ gen_calls[i].retry_count = i - 1
    /\ (Len(gen_calls) = 4 /\ pc = "prompt_naming") => Len(feedback_history) = 3
    /\ (LoopLeft /\ user_choice = "retry") =>
          /\ Len(gen_calls) = 4
          /\ Len(feedback_history) = 3
          /\ retry_count = 3
          /\ LoopEnd = "max_retries_reached"
          /\ RowsWith("retry") = {1, 2, 3}

C10_Witness ==
    /\ pc = "after_loop"
    /\ user_choice = "retry"
    /\ feedback_history = <<"too generic", "too generic", "too generic">>
    /\ gen_calls[3].history_length = 2
    /\ gen_calls[4].history_length = 3
    /\ gen_calls[4].feedback = "too generic | too generic | too generic"
    /\ LoopEnd = "max_retries_reached"

\* C11: the first generation call of a session receives no feedback; the
\* i-th call (i > 1) receives the first i - 1 feedback strings of the session,
\* in the order given, joined by " | " into one non-empty string, so that the
\* prompt carries every earlier feedback.
C11_FeedbackAccumulates ==
    \A i \in DOMAIN gen_calls :
       IF i = 1
       THEN gen_calls[i].feedback = "None"
       ELSE /\ Len(feedback_history) >= i - 1
            /\ gen_calls[i].feedback = JoinWith(" | ", SubSeq(feedback_history, 1, i - 1))
            /\ gen_calls[i].feedback # ""
            /\ \A j \in 1..(i - 1) : Contains(gen_calls[i].feedback, feedback_history[j])

C11_Witness ==
    /\ Len(gen_calls) = 3
    /\ gen_calls[1].feedback = "None"
    /\ gen_calls[2].feedback = DefaultFeedback
    /\ gen_calls[3].feedback = DefaultFeedback \o " | too generic"
    /\ feedback_history = <<DefaultFeedback, "too generic">>

\* C12: the generation call at retry counter 0 uses the payload built in
\* start-extraction mode before the loop, and every call at retry counter
\* rc > 0 uses an end-extraction payload built for that call: no two calls
\* use the same payload.
C12_PayloadPerAttempt ==
    /\ \A i \in DOMAIN gen_calls :
          IF gen_calls[i].retry_count = 0
          THEN /\ gen_calls[i].extraction_type = "beginning_of_files"
               /\ gen_calls[i].payload_build = 1
          ELSE /\ gen_calls[i].extraction_type = "end_of_files"
               /\ gen_calls[i].payload_build = gen_calls[i].retry_count + 1
    /\ \A i, j \in DOMAIN gen_calls :
          i # j => gen_calls[i].payload_build # gen_calls[j].payload_build
    /\ pc = "prompt_naming" =>
          current_analysis_data.build = Last(gen_calls).payload_build

C12_Witness ==
    /\ Len(gen_calls) = 3
    /\ gen_calls[1].extraction_type = "beginning_of_files"
    /\ gen_calls[2].extraction_type = "end_of_files"
    /\ gen_calls[3].extraction_type = "end_of_files"
    /\ gen_calls[2].payload_build = 2
    /\ gen_calls[3].payload_build = 3

\* C13: the conflict probe never selects an existing path: it returns the
\* base when the base is free, otherwise base<n> for the smallest n >= 1 such
\* that base1..base<n-1> exist and base<n> does not; with {base, base1, base2}
\* existing it returns base3. It ends after at most one probe per existing
\* path, plus one.
ProbeTaken(i) == PathJoin(call.parent, call.name \o ChainSuffix(i)) \in call.existing

C13_ProbeSelectsFirstFree ==
    result # <<>> =>
       /\ PathJoin(call.parent, result[1]) \notin call.existing
       /\ ~ProbeTaken(0) => result[1] = call.name
       /\ ProbeTaken(0) =>
             \E n \in 1..Cardinality(call.existing) :
                /\ result[1] = call.name \o IntToStr(n)
                /\ \A i \in 1..(n - 1) : ProbeTaken(i)
                /\ ~ProbeTaken(n)
       /\ (ProbeTaken(0) /\ ProbeTaken(1) /\ ProbeTaken(2) /\ ~ProbeTaken(3))
             => result[1] = call.name \o "3"

C13_Witness ==
    /\ call.name = "transMtgSync"
    /\ call.existing = {PathJoin(ProbeParent, "transMtgSync"),
                        PathJoin(ProbeParent, "transMtgSync1"),
                        PathJoin(ProbeParent, "transMtgSync2"),
                        PathJoin(ProbeParent, "transMtgSync10")}
    /\ result = <<"transMtgSync3">>

\* main() is blocked in the input() of the final consent prompt
AtFinalPrompt == pc \in {"consent_move", "consent_rename"}

\* The move or rename call is the next thing main() does
AtPlacementCall == pc \in {"move", "rename"}

\* C14: the existence check that selects the final path is made immediately
\* before the move or rename: main() reaches the move/rename call straight
\* from the step that probed the final path, with no prompt in between.
C14_StepOk ==
    (AtPlacementCall' /\ ~AtPlacementCall) => (pc = "after_loop" /\ ~AtFinalPrompt)

C14_ProbeRightBeforeMove == [][C14_StepOk]_vars

\* Placement under DATA-HOME has run to its end
DataHomePlacementDone == pc = "done" /\ UsesDataHome /\ NameChosen(new_directory_name)

\* C15: in DATA-HOME mode the log shows exactly one of moved_successfully;
\* move_failed, local_rename_success; move_failed, total_failure. At the end
\* the directory is at exactly one place, the reported final location: it is
\* at the optimal path only when that is the reported location, and at its
\* original path only in the total_failure case.
C15_StagedFallback ==
    DataHomePlacementDone =>
       /\ PlacementRows \in {<<"moved_successfully">>,
                             <<"move_failed", "local_rename_success">>,
                             <<"move_failed", "total_failure">>}
       /\ final_location \in fs
       /\ final_path \in fs => final_location = final_path
       /\ final_location = final_path <=> Last(log).user_action = "moved_successfully"
       /\ target_directory \in fs <=> Last(log).user_action = "total_failure"
       /\ target_directory \in fs => final_location = target_directory
       /\ ~(target_directory \in fs /\ final_path \in fs)

FailureActions == {"generation_failed", "move_failed", "rename_failed", "total_failure"}

\* C16: every failure of a run is recorded by exactly one log row: a failed
\* move by one move_failed row, a failed rename by one rename_failed or
\* total_failure row, and a run ended by a raised error (an analysis file
\* that cannot be written) has a failure row for it as its last row.
C16_EveryFailureLogged ==
    /\ Cardinality(RowsWith("move_failed")) <= 1
    /\ Cardinality(RowsWith("rename_failed") \cup RowsWith("total_failure")) <= 1
    /\ (pc = "done" /\ target_directory \in fs /\ final_path # "")
          => RowsWith("rename_failed") \cup RowsWith("total_failure") # {}
    /\ pc = "raised_write"
          => /\ Len(log) > 0
             /\ Last(log).user_action \in FailureActions

\* The line on which the final consent prompt returned is a yes / a no
FinalYes == response \in {"y", "yes"}
FinalNo == response \in {"n", "no"}

\* C17: the move or rename, and the creation of the destination parent,
\* happen only after the user answered yes to the final consent prompt; on a
\* no the process exits with code 0, the directory stays at its original
\* path, nothing was created and no placement row is logged.
C17_StepOk ==
    /\ (fs' # fs /\ pc # "start") => FinalYes
    /\ (AtFinalPrompt /\ ~AtFinalPrompt') =>
          \/ FinalYes' /\ AtPlacementCall'
          \/ /\ FinalNo'
             /\ pc' = "exit"
             /\ exit_code' = 0
             /\ fs' = fs
             /\ log' = log

C17_ConsentBeforePlacement ==
    /\ [](PlacementStarted => FinalYes)
    /\ []((pc = "exit" /\ FinalNo) =>
             /\ exit_code = 0
             /\ target_directory \in fs
             /\ final_path \notin fs
             /\ PlacementRows = <<>>)
    /\ [][C17_StepOk]_vars

C17_Witness ==
    /\ pc = "exit"
    /\ response = "n"
    /\ final_path # ""
    /\ optimal_parent_path # ""
    /\ Len(log) = 2

\* The directory argument is missing, or names no existing directory
InvalidArgument == ~env.argv_ok \/ ~env.dir_exists \/ ~env.is_dir

\* main() is blocked in the input() of a consent prompt
AtConsentPrompt == pc \in {"consent_analysis", "consent_naming", "consent_move", "consent_rename"}

\* C18: with a missing argument, or a path that does not exist or is not a
\* directory, the process does nothing but exit with code 1: it shows no
\* prompt, writes no file, logs nothing and moves nothing. A run cancelled at
\* a consent prompt exits with code 0.
C18_StepOk == (AtConsentPrompt /\ pc' = "exit") => exit_code' = 0

C18_InvalidArgumentExitsOne ==
    /\ [](InvalidArgument =>
             /\ pc \in {"start", "exit"}
             /\ pc = "exit" => exit_code = 1
             /\ written_files = {}
             /\ log = <<>>
             /\ ~DirectoryMoved)
    /\ [][C18_StepOk]_vars

\* C19: whenever the source path, with backslashes replaced by slashes,
\* contains "News/transcripts", the route is
\* <root>/filetree/roots/documents/Text Documents, whatever the content-type
\* prefix of the name and whatever keyword it contains.
C19_NewsOverrideWins ==
    (result # <<>> /\ Contains(NormalizeSlashes(call.source_path), "News/transcripts"))
    => result[1] = call.data_home_root \o "/filetree/roots/documents/Text Documents"

C19_Witness ==
    /\ call.directory_name = "audPodShow"
    /\ call.source_path = "C:\\News\\transcripts\\ep1"
    /\ result = <<"/dh/filetree/roots/documents/Text Documents">>

\* The keys of the routing table, and the content-type abbreviations of the
\* naming taxonomy that have no routing entry
RoutingKeys == {"aud", "trans", "doc", "code", "media", "arch"}
UnroutedTypes == {"data", "img", "vid", "lit", "game", "soft"}

\* p is exactly the leading run of lowercase letters of name
IsLeadingRun(name, p) ==
    /\ Len(name) >= Len(p)
    /\ SubSeq(name, 1, Len(p)) = p
    /\ Len(name) = Len(p) \/ ~CharIn(CharAt(name, Len(p) + 1), LowerLetters)

\* C20: when the override does not apply, a name whose leading run of
\* lowercase letters is missing or is no key of the routing table (aud,
\* trans, doc, code, media, arch) is routed to <root>/filetree/roots/documents;
\* so are the names with the prefixes data, img, vid, lit, game and soft.
C20_UnknownPrefixFallsBack ==
    (result # <<>> /\ ~Contains(NormalizeSlashes(call.source_path), "News/transcripts"))
    => /\ DOMAIN data_home_mapping = RoutingKeys
       /\ (\A k \in RoutingKeys : ~IsLeadingRun(call.directory_name, k))
             => result[1] = call.data_home_root \o "/filetree/roots/documents"
       /\ (\E p \in UnroutedTypes : IsLeadingRun(call.directory_name, p))
             => result[1] = call.data_home_root \o "/filetree/roots/documents"

C20_Witness ==
    /\ call.directory_name = "dataSalesQ3"
    /\ call.source_path = "/in/news/transcripts/ep1"
    /\ call.data_home_root = "/mnt/data home"
    /\ result = <<"/mnt/data home/filetree/roots/documents">>

\* The call is routed by the name: the news override does not apply
RoutedByName ==
    result # <<>> /\ ~Contains(NormalizeSlashes(call.source_path), "News/transcripts")

\* keyword and destination of entry i of the keyword table of content type k
KeywordOf(k, i) == data_home_mapping[k].context_mappings[i][1]
FragmentOf(k, i) == data_home_mapping[k].context_mappings[i][2]
KeywordIndexes(k) == 1..Len(data_home_mapping[k].context_mappings)

\* C21: for a name with a known content-type prefix, the route is the
\* destination of the first keyword of that content type's table, in table
\* order, that is a substring of the lowercased whole name; an earlier table
\* entry wins over a later one wherever the keywords stand in the name.
C21_FirstKeywordInTableOrderWins ==
    RoutedByName =>
       \A k \in RoutingKeys :
          IsLeadingRun(call.directory_name, k) =>
             \A i \in KeywordIndexes(k) :
                (/\ Contains(Lower(call.directory_name), KeywordOf(k, i))
                 /\ \A j \in 1..(i - 1) :
                       ~Contains(Lower(call.directory_name), KeywordOf(k, j)))
                => result[1] = call.data_home_root \o "/filetree/roots/" \o FragmentOf(k, i)

C21_Witness ==
    /\ call.directory_name = "docMedFin"
    /\ call.source_path = "/in/misc/ep1"
    /\ result = <<"/dh/filetree/roots/documents/personal/financial">>

\* C22: for a name with a known content-type prefix in which no keyword of
\* that content type's table occurs, the route is
\* <root>/filetree/roots/<primary path of the content type>.
C22_PrimaryPathWithoutKeyword ==
    RoutedByName =>
       \A k \in RoutingKeys :
          (/\ IsLeadingRun(call.directory_name, k)
           /\ \A i \in KeywordIndexes(k) :
                 ~Contains(Lower(call.directory_name), KeywordOf(k, i)))
          => result[1] = call.data_home_root \o "/filetree/roots/"
                            \o data_home_mapping[k].primary_path

C22_Witness ==
    /\ call.directory_name = "transNotes"
    /\ call.source_path = ""
    /\ result = <<"/mnt/data home/filetree/roots/documents/Text Documents">>

\* Rows written by the naming loop
LoopRows == {i \in DOMAIN log : log[i].user_action \in TerminalActions \cup {"retry"}}

\* A step keeps the rows already written and, under DATA-HOME, gives each
\* loop row it adds the parent that a call of the router with the row's
\* name, root and source path returns when evaluated on its own.
C23_StepOk ==
    /\ \A i \in DOMAIN log : i \in DOMAIN log' /\ log'[i] = log[i]
    /\ \A i \in DOMAIN log' \ DOMAIN log :
          (data_home_root # "" /\ log'[i].user_action \in TerminalActions \cup {"retry"}) =>
             log'[i].optimal_parent_path =
                determine_optimal_parent_directory(log'[i].generated_name, data_home_root,
                                                   log'[i].source_path)

IsCamelName(name) ==
    /\ Len(name) >= 1
    /\ CharIn(CharAt(name, 1), LowerLetters)
    /\ \A i \in 2..Len(name) :
          CharIn(CharAt(name, i), LowerLetters \o UpperLetters \o Digits)

\* C24: validate_directory_name(name) is true if and only if name has at
\* most 75 characters and is one lowercase letter followed only by letters
\* and digits; names with a separator, whitespace or newline are rejected.
C24_ValidIffCamelWithinLimit ==
    result # <<>> => (result[1] <=> (Len(call.name) <= 75 /\ IsCamelName(call.name)))

\* What the code accepts: a name as above, or one with a single "\n" after
\* it, of at most 75 characters in all.
C24_AcceptsOneTrailingNewline ==
    result # <<>> =>
       (result[1] <=>
           /\ Len(call.name) <= 75
           /\ \/ IsCamelName(call.name)
              \/ /\ Len(call.name) >= 2
                 /\ CharAt(call.name, Len(call.name)) = "\n"
                 /\ IsCamelName(SubSeq(call.name, 1, Len(call.name) - 1)))

\* "processedAudio" followed by eight digits
IsFallbackName(name) ==
    /\ Len(name) = 22
    /\ SubSeq(name, 1, 14) = "processedAudio"
    /\ \A i \in 15..22 : CharIn(CharAt(name, i), Digits)

\* The generation falls back: no client, an exception, or a trimmed reply
\* that fails validation
GenerationFallsBack ==
    \/ ~call.has_client
    \/ call.reply = RAISES
    \/ ~validate_directory_name(Strip(call.reply))

\* C25: every name returned by a generation call is non-empty and passes
\* validate_directory_name: it is the fallback name "processedAudio" plus the
\* 8-digit date whenever no client is configured, the call raises or the
\* trimmed reply fails validation, and the trimmed reply otherwise.
C25_GeneratedNameIsValid ==
    result # <<>> =>
       /\ result[1] # ""
       /\ validate_directory_name(result[1])
       /\ IsCamelName(result[1])
       /\ GenerationFallsBack => IsFallbackName(result[1])
       /\ ~GenerationFallsBack => result[1] = Strip(call.reply)

C25_Witness ==
    /\ call.has_client
    /\ call.reply = " trans_mtg\n"
    /\ result = <<"processedAudio20261106">>

\* The source path of the run is not a news-transcript source
SourceIsNotNews == ~Contains(NormalizeSlashes(env.directory_path), "News/transcripts")

\* C26: whenever the fallback name is used under DATA-HOME and the source is
\* not a news-transcript source, the routed destination is
\* <root>/filetree/roots/documents, on the first attempt and on every retry.
C26_FallbackRoutesToDocuments ==
    (data_home_root # "" /\ SourceIsNotNews) =>
       /\ \A i \in LoopRows :
             (log[i].generated_name = create_fallback_name \/ ~env.api_key)
                => log[i].optimal_parent_path = data_home_root \o "/filetree/roots/documents"
       /\ (pc = "prompt_naming"
              /\ (new_directory_name = create_fallback_name \/ ~env.api_key))
             => optimal_parent_path = data_home_root \o "/filetree/roots/documents"

C26_Witness ==
    /\ SourceIsNotNews
    /\ env.api_key
    /\ Len(log) = 4
    /\ \A i \in {1, 3, 4} :
          /\ log[i].generated_name = "processedAudio20261106"
          /\ log[i].attempt_number = i
          /\ log[i].optimal_parent_path = "/dh/filetree/roots/documents"
    /\ log[2].generated_name = "transMtgSync"

\* C27: any two distinct runs obtain different session ids, also when they
\* start within the same clock second.
C27_SessionIdsUnique ==
    \A i, j \in DOMAIN result : i # j => result[i] # result[j]

\* Number of newline characters of a text: one less than its lines
NewlineCount(text) == Cardinality({i \in 1..Len(text) : CharAt(text, i) = "\n"})

\* text is the leading part of content: a prefix of at most 10 lines and at
\* most 500 characters that stops only at the end of the content, at the
\* 500th character or at the end of the 10th line
IsLeadingPart(text, content) ==
    /\ Len(text) <= Len(content)
    /\ text = SubSeq(content, 1, Len(text))
    /\ Len(text) <= 500
    /\ NewlineCount(text) <= 9
    /\ \/ Len(text) = Len(content)
       \/ Len(text) = 500
       \/ NewlineCount(text) = 9 /\ CharAt(content, Len(text) + 1) = "\n"

\* text is the trailing part of content, the same from the other end
IsTrailingPart(text, content) ==
    /\ Len(text) <= Len(content)
    /\ text = SubSeq(content, Len(content) - Len(text) + 1, Len(content))
    /\ Len(text) <= 500
    /\ NewlineCount(text) <= 9
    /\ \/ Len(text) = Len(content)
       \/ Len(text) = 500
       \/ NewlineCount(text) = 9 /\ CharAt(content, Len(content) - Len(text)) = "\n"

\* The path names a file with an extension of the allow-list, in any case
HasAllowedExtension(path) ==
    \E e \in readable_extensions :
        /\ Len(path) > Len(e)
        /\ Lower(SubSeq(path, Len(path) - Len(e) + 1, Len(path))) = e
        /\ CharAt(path, Len(path) - Len(e)) # "/"

\* C28: for every directory and both modes the snippet map has at most 25
\* entries, each for a file with an allow-listed lowercased extension; each
\* snippet is the tag of its end followed by the leading (start mode) or
\* trailing (end mode) part of at most 10 lines and 500 characters of the
\* file; total_files_analyzed is the number of snippets.
C28_SnippetCaps ==
    result # <<>> =>
        LET directory == SnippetDirectory(call.n, call.shift)
            snippets == result[1].text_snippets
            tag == IF call.extract_from_end THEN "[end] " ELSE "[beginning] "
        IN /\ Cardinality(DOMAIN snippets) <= 25
           /\ \A path \in DOMAIN snippets :
                \E i \in 1..Len(directory) :
                    LET f == directory[i]
                        text == SubSeq(snippets[path], Len(tag) + 1, Len(snippets[path]))
                    IN /\ f.path = path
                       /\ f.is_file
                       /\ HasAllowedExtension(path)
                       /\ snippets[path] = tag \o text
                       /\ IF call.extract_from_end
                          THEN IsTrailingPart(text, f.content)
                          ELSE IsLeadingPart(text, f.content)
           /\ result[1].total_files_analyzed = Cardinality(DOMAIN snippets)

\* C28 witness: an end-mode extraction that stopped at 25 snippets although
\* the directory holds more readable allow-listed files, with a snippet cut
\* to the trailing 500 characters and one cut to the last 10 lines.
C28_Witness ==
    /\ result # <<>>
    /\ call.extract_from_end
    /\ LET directory == SnippetDirectory(call.n, call.shift)
           snippets == result[1].text_snippets
       IN /\ Cardinality(DOMAIN snippets) = 25
          /\ Cardinality({i \in 1..Len(directory) :
                            /\ directory[i].is_file
                            /\ directory[i].opens
                            /\ HasAllowedExtension(directory[i].path)}) > 25
          /\ \E i \in 1..Len(directory) :
                /\ directory[i].path \in DOMAIN snippets
                /\ Len(directory[i].content) > 500
                /\ Len(snippets[directory[i].path]) = 6 + 500
          /\ \E i \in 1..Len(directory) :
                /\ directory[i].path \in DOMAIN snippets
                /\ NewlineCount(directory[i].content) > 9
                /\ NewlineCount(snippets[directory[i].path]) = 9
                /\ Len(snippets[directory[i].path]) < 6 + 500

\* The entries of the tree directly inside the dict reached by keys
ContentsAt(tree, keys) ==
    {e \in tree : Len(e.keys) = Len(keys) + 1 /\ SubSeq(e.keys, 1, Len(keys)) = keys}

\* The dicts of the tree that stand for directories: the outermost one and
\* the nested ones
ListedDirectories(tree) == {<<>>} \cup {e.keys : e \in {d \in tree : d.value = "dict"}}

\* The directory a dict stands for: its keys without their trailing slash
DirectoryOf(keys) == [i \in 1..Len(keys) |-> SubSeq(keys[i], 1, Len(keys[i]) - 1)]

IsMarker(e) == e.keys[Len(e.keys)] \in {"...", "[ACCESS_DENIED]"}

MaxDepthMarker(keys) == [keys |-> Append(keys, "..."), value |-> "max_depth_reached"]
AccessDeniedMarker(keys) == [keys |-> Append(keys, "[ACCESS_DENIED]"), value |-> "permission_error"]

\* A directory within the depth bound holds the access-denied marker alone
\* when listing it failed, and otherwise one entry for each of its items.
ListedOrDenied(tree, keys) ==
    LET directory == TreeFiles(call)[DirectoryOf(keys)]
    IN IF directory.denied
       THEN ContentsAt(tree, keys) = {AccessDeniedMarker(keys)}
       ELSE {e.keys[Len(e.keys)] : e \in ContentsAt(tree, keys)}
            = {IF item.is_dir THEN item.name \o "/" ELSE item.name : item \in directory.items}

C29_EntriesUpToFourLevels ==
    result # <<>> =>
        LET tree == result[1]
        IN /\ \A e \in tree : ~IsMarker(e) => Len(e.keys) <= 3 + 1
           /\ \A keys \in ListedDirectories(tree) :
                IF Len(keys) > 3
                THEN ContentsAt(tree, keys) = {MaxDepthMarker(keys)}
                ELSE ListedOrDenied(tree, keys)

\* A tree with a file 4 levels below the analyzed directory, a directory
\* cut by the max-depth marker, and a denied directory beside listed ones
C29_FourthLevelListed ==
    /\ result # <<>>
    /\ \E e \in result[1] : ~IsMarker(e) /\ e.value # "dict" /\ Len(e.keys) = 3 + 1
    /\ \E e \in result[1] : e.value = "max_depth_reached"
    /\ \E e \in result[1] : e.value = "permission_error" /\ Len(e.keys) = 2

\* The tags in their fixed order and the keywords of each
BucketOrder ==
    <<"specificity", "length", "location", "content_focus", "abbreviations",
      "missing_info", "context">>

BucketKeywords(tag) ==
    CASE tag = "specificity" -> {"generic", "specific", "vague", "unclear"}
      [] tag = "length" -> {"long", "short", "length", "brief", "verbose"}
      [] tag = "location" -> {"location", "directory", "path", "folder", "place"}
      [] tag = "content_focus" -> {"topic", "subject", "focus", "about", "theme"}
      [] tag = "abbreviations" -> {"abbreviation", "abbrev", "short", "expand"}
      [] tag = "missing_info" -> {"missing", "include", "add", "mention"}
      [] tag = "context" -> {"context", "background", "situation"}

\* The tags whose bucket has a keyword inside the lowercased feedback
MatchedTags(feedback) ==
    {tag \in {BucketOrder[i] : i \in 1..Len(BucketOrder)} :
        \E word \in BucketKeywords(tag) : Contains(Lower(feedback), word)}

TagMatched(tag) == tag \in MatchedTags(call.feedback)

\* C30: categorize_feedback gives "" for empty feedback; otherwise the tags
\* of all buckets with a keyword inside the lowercased feedback, joined by
\* "|" in the fixed order; and "other" exactly when the feedback is not
\* empty and no bucket matches.
C30_AllMatchingTagsInOrder ==
    result # <<>> =>
        /\ call.feedback = "" => result[1] = ""
        /\ call.feedback # "" /\ MatchedTags(call.feedback) # {} =>
              result[1] = JoinWith("|", SelectSeq(BucketOrder, TagMatched))
        /\ result[1] = "other" <=> call.feedback # "" /\ MatchedTags(call.feedback) = {}

\* C30 witness: a feedback in mixed case that matches several buckets, one
\* of them through a keyword that two buckets share.
C30_Witness ==
    /\ result # <<>>
    /\ Lower(call.feedback) # call.feedback
    /\ Cardinality(MatchedTags(call.feedback)) >= 3
    /\ Contains(result[1], "length|abbreviations")

\* The move is issued against an occupied path
MoveAgainstOccupied == pc = "move" /\ final_path \in fs

\* The directory lies inside the chosen path, not at it
MovedInside(existing) ==
    /\ PathJoin(final_path, Basename(target_directory)) \in existing
    /\ target_directory \notin existing

\* A move issued against an occupied path that is logged as a success names
\* the chosen path in its row while the directory lies inside that path.
C31_StepOk ==
    (MoveAgainstOccupied /\ pc' = "done") =>
        /\ log' = Append(log, log'[Len(log')])
        /\ log'[Len(log')].user_action = "moved_successfully"
        /\ log'[Len(log')].final_destination = final_path
        /\ final_location' = final_path
        /\ MovedInside(fs')

\* C31: when another process creates the chosen final path between the last
\* existence check and the move, the move is issued against an occupied
\* path, and a run that then logs moved_successfully logs the chosen path
\* as final_destination although the directory is not located at it.
C31_StaleProbeMisreportsDestination == [][C31_StepOk]_vars

\* C31 witness: the run has logged moved_successfully for the chosen path
\* and the directory lies inside that path.
C31_Witness ==
    /\ pc = "done"
    /\ Len(log) > 0
    /\ log[Len(log)].user_action = "moved_successfully"
    /\ log[Len(log)].final_destination = final_path
    /\ MovedInside(fs)

\* The destination of the local rename that follows a failed move
FallbackDestination == PathJoin(Dirname(target_directory), new_directory_name)

\* The path is the one the conflict probe of this run selected, in the
\* parent it is in, and it is still free
ProbedFree(path, parent) ==
    /\ path = final_path
    /\ Dirname(path) = parent
    /\ path \notin fs

\* C32: every destination the engine is about to pass to a move or rename
\* was selected by the conflict probe in the destination's own parent: the
\* optimal path before the move, the sibling path before the rename, and the
\* sibling path of the local-rename fallback after a failed move.
C32_DestinationsProbed ==
    /\ pc = "move" => ProbedFree(final_path, optimal_parent_path)
    /\ pc = "rename" => ProbedFree(final_path, Dirname(target_directory))
    /\ pc = "move_failed" => ProbedFree(FallbackDestination, Dirname(target_directory))

\* The move and the plain rename do get probed destinations
C32_MoveAndRenameProbed ==
    /\ pc = "move" => ProbedFree(final_path, optimal_parent_path)
    /\ pc = "rename" => ProbedFree(final_path, Dirname(target_directory))

\* The fallback is about to rename the directory onto an existing sibling
C32_FallbackOntoExisting == pc = "move_failed" /\ FallbackDestination \in fs

\* Rows of the placement stage, those that report a placement, and the
\* rows of rejected candidates
PlacementRowSet ==
    {i \in DOMAIN log : log[i].user_action \in {"moved_successfully", "move_failed",
                                                 "local_rename_success", "total_failure",
                                                 "rename_failed"}}
SuccessRowSet ==
    {i \in DOMAIN log : log[i].user_action \in {"moved_successfully", "local_rename_success"}}
RetryRowSet == {i \in DOMAIN log : log[i].user_action = "retry"}

\* The candidate returned by the last generation call
LastCandidate == gen_calls[Len(gen_calls)].name

\* name is base, or base with a number appended
IsBaseOrSuffixed(name, base) ==
    \/ name = base
    \/ \E n \in 1..(Cardinality(fs) + 1) : name = base \o IntToStr(n)

\* The parent a placement row's destination lies in: the routed parent for
\* the move, the source's parent for a rename
RowParent(i) ==
    IF log[i].user_action = "moved_successfully" THEN log[i].optimal_parent_path
    ELSE Dirname(target_directory)

WrittenInTarget == {f \in written_files : Dirname(f) = target_directory}

\* From the first analysis up to the prompt for the final consent
AnalysedNotYetPlaced ==
    pc \in {"consent_naming", "generate", "prompt_naming", "collect_feedback",
            "after_loop", "consent_move", "consent_rename"}

\* C34: between the first analysis and the final move/rename consent the
\* engine adds no file inside the target directory, so a retry payload is
\* computed from the directory contents the initial payload saw.
C34_TargetUntouchedBeforeConsent ==
    AnalysedNotYetPlaced => WrittenInTarget = {}

\* A retry payload is about to be built from a directory that holds the
\* dump of the initial payload and the dump of an earlier retry payload.
C34_RetryPayloadSeesDumps ==
    /\ pc = "generate"
    /\ retry_count = 2
    /\ LoopCondition(retry_count)
    /\ PathJoin(target_directory, "analysis_data.json") \in WrittenInTarget
    /\ PathJoin(target_directory, "retry_analysis_data_1.json") \in WrittenInTarget

\* ---------------------------------------------------------------------
\* C35  feedback_history and the retry counter
\* ---------------------------------------------------------------------

\* A step leaves both alone, or appends one feedback and counts one retry
C35_StepOk ==
    \/ /\ retry_count' = retry_count
       /\ feedback_history' = feedback_history
    \/ /\ retry_count' = retry_count + 1
       /\ Len(feedback_history') = Len(feedback_history) + 1
       /\ SubSeq(feedback_history', 1, Len(feedback_history)) = feedback_history

\* C35: in every state of the negotiation loop the length of
\* feedback_history equals the retry counter, and the two grow only
\* together, by exactly 1, the history by appending.
C35_HistoryTracksRetries ==
    /\ [](InLoop => Len(feedback_history) = retry_count)
    /\ [][C35_StepOk]_vars

\* C35 witness: the loop after the second retry, with two feedbacks kept
C35_Witness ==
    /\ pc = "generate"
    /\ retry_count = 2
    /\ Len(feedback_history) = 2
    /\ feedback_history[1] # feedback_history[2]

\* ---------------------------------------------------------------------
\* C36  how the negotiation loop ends
\* ---------------------------------------------------------------------

\* C36: no entry with the action 'cancel' or 'generation_failed' is ever
\* logged, the naming prompt hands back accept or retry only, every
\* generation call returns a non-empty name, and when the loop has been
\* left its last entry is an 'accept' or a 'max_retries_reached' entry.
C36_LoopEndsAcceptOrLimit ==
    /\ \A i \in DOMAIN log : log[i].user_action \notin {"cancel", "generation_failed"}
    /\ user_choice \in {"", "accept", "retry"}
    /\ \A k \in DOMAIN gen_calls : gen_calls[k].name # ""
    /\ pc = "after_loop" =>
          /\ log # <<>>
          /\ log[Len(log)].user_action \in {"accept", "max_retries_reached"}
          /\ log[Len(log)].attempt_number = Len(gen_calls)

\* C36 witness: the loop left at the retry limit after an invalid reply of
\* the model was replaced by the fallback name
C36_Witness ==
    /\ pc = "after_loop"
    /\ log[Len(log)].user_action = "max_retries_reached"
    /\ env.api_key
    /\ \E k \in DOMAIN gen_calls : gen_calls[k].name = create_fallback_name

\* ---------------------------------------------------------------------
\* C37  termination of the negotiation loop
\* ---------------------------------------------------------------------

\* C37: a session makes at most 4 generation calls and asks for feedback
\* at most 3 times, and, when every generation call returns and every
\* prompt is eventually answered with a valid choice, the loop reaches a
\* terminal decision whatever the choices are.
C37_LoopTerminates ==
    /\ [](Len(gen_calls) <= max_retries + 1 /\ Len(feedback_history) <= max_retries)
    /\ [](retry_count <= max_retries)
    /\ (InLoop ~> (pc = "after_loop" /\ log[Len(log)].user_action \in TerminalActions))

\* C37 witness: the loop ended by the limit after 4 generation calls and 3
\* feedbacks
C37_Witness ==
    /\ pc = "after_loop"
    /\ Len(gen_calls) = max_retries + 1
    /\ Len(feedback_history) = max_retries
    /\ log[Len(log)].user_action = "max_retries_reached"

\* ---------------------------------------------------------------------
\* C38  source_is_news_transcript and the router's override
\* ---------------------------------------------------------------------

\* The row main() logs for an attempt whose candidate was routed by the
\* call of the helper specification: lines 164 and 199 hand the same
\* directory_path to the router and to log_naming_attempt.
RoutedAttemptEntry ==
    LogEntry(1, call.source_path, call.directory_name, result[1], "accept", "", "", FALSE)

FlagAgreesWithOverride ==
    (RoutedAttemptEntry.source_is_news_transcript = "yes") <=> NewsOverride(call.source_path)

\* C38: in data-home mode an entry has source_is_news_transcript = 'yes'
\* if and only if the router applied the news-transcript override to the
\* same source path.
C38_FlagMatchesOverride ==
    (result # <<>> /\ call.source_path # "") => FlagAgreesWithOverride

\* The two agree for every source path without a backslash.
C38_FlagMatchesOverrideWithoutBackslash ==
    (result # <<>> /\ call.source_path # "" /\ ~Contains(call.source_path, "\\"))
        => FlagAgreesWithOverride

\* A routed attempt with the override applied and 'no' in its entry
C38_OverrideLoggedAsNo ==
    /\ result # <<>>
    /\ result[1] = PathJoin(call.data_home_root, "filetree/roots/documents/Text Documents")
    /\ NewsOverride(call.source_path)
    /\ RoutedAttemptEntry.source_is_news_transcript = "no"

\* ---------------------------------------------------------------------
\* C39  runs without data-home integration
\* ---------------------------------------------------------------------

\* DATA_HOME unset, or <DATA_HOME>/filetree/roots missing
DataHomeInactive == env.data_home \in {"unset", "no_roots"}

\* The directory is renamed to a free name in the parent it is in
RenamedToFreeSibling ==
    /\ pc = "rename"
    /\ target_directory \in fs
    /\ final_path \notin fs
    /\ Dirname(final_path) = Dirname(target_directory)
    /\ fs' = (fs \ {target_directory}) \cup {final_path}

\* A step of a run without data-home integration leaves the file system as
\* it is, creates the sub-directory of the audio step at startup, or renames
\* the directory to a free sibling name.
C39_StepOk ==
    DataHomeInactive =>
        \/ fs' = fs
        \/ pc = "start" /\ env.audio /\ fs' = fs \cup {TargetOf(env)}
        \/ RenamedToFreeSibling

\* C39: without data-home integration no parent is ever routed (the
\* router returns a non-empty path whenever it is called), every entry
\* of the loop has an empty optimal_parent_path, the move to an optimal
\* location is never reached, and the only change to the directory's
\* location is a rename to a free sibling name in the same parent.
C39_InactiveDataHomeStaysLocal ==
    /\ [](DataHomeInactive =>
             /\ data_home_root = ""
             /\ optimal_parent_path = ""
             /\ \A i \in LoopRows : log[i].optimal_parent_path = ""
             /\ \A i \in DOMAIN log : i \notin LoopRows =>
                   /\ log[i].optimal_parent_path = "no_data_home"
                   /\ Dirname(log[i].final_destination) = Dirname(target_directory)
             /\ pc \notin {"consent_move", "move", "move_failed"}
             /\ final_location # "" => Dirname(final_location) = Dirname(target_directory))
    /\ [][C39_StepOk]_vars

\* C39 witness: DATA_HOME is set but has no filetree/roots, a candidate was
\* rejected and the directory was renamed in place
C39_Witness ==
    /\ env.data_home = "no_roots"
    /\ pc = "done"
    /\ Len(gen_calls) >= 2
    /\ target_directory \notin fs
    /\ final_location \in fs
    /\ final_location # target_directory
    /\ Dirname(final_location) = Dirname(target_directory)

====
